---- MODULE Spec2Model ----
(***************************************************************************)
(* A model of dedup-images: the content index (HashItem / HashDB), the     *)
(* perceptual hash codec, the per-directory hash store with its            *)
(* incremental update, the loading and saving of the database, the hash   *)
(* phase with its pool of tasks, the searches of the index, the commands   *)
(* of main, and the index of directory names (DBIndex).                    *)
(*                                                                         *)
(* File names are numbered in lexicographic order, so that sorted() and    *)
(* the comparison of names are the order of the numbers.  Where the text   *)
(* of a name matters (filter_by_path, list_top_paths) it is FileNames[n].  *)
(***************************************************************************)
EXTENDS Integers, Sequences, FiniteSets, TLC

VARIABLES
    files,      \* the file system: file name -> content, or NoFile
    items,      \* HashDB.items: the list of HashItem objects
    last,       \* the last prune, cleanup, dump or load and what it returned;
                \* forgotten (NoOp) when another operation runs
    log,        \* the add() calls made so far, in order (SpecAdd); the
                \* path given to the last filter_by_path (SpecPaths); the
                \* mode of the last check_file_names (SpecChange); the
                \* operations on the file of an item (SpecItem); the
                \* commands main has run (SpecPhases); the names handed
                \* out by get_name_by_path (SpecIndex)
    dumped,     \* the list returned by the last dump() or list_top_paths();
                \* the values returned by content_sha256 (SpecItem)
    found,      \* the last run of find_groups, find_pairs or query
    dbfile,     \* the hash store file of a directory (.imagehash_dct);
                \* the file of the DBIndex (SpecIndex)
    old_hashdb, \* update_db of the store: the store loaded from dbfile
    new_hashdb, \* update_db of the store: the store being built; the
                \* DBIndex object (SpecIndex)
    upd,        \* update_db of the store: its position and its last step
    dbpath,     \* the database file of the index (~/.imagedups)
    run,        \* main: the arguments, the position and the error raised
    batch       \* cmd_hash: the update_db under way and its hash tasks

indexVars == <<files, items, last, log, dumped, found>>

storeVars == <<dbfile, old_hashdb, new_hashdb, upd, dbpath, run, batch>>

vars == <<files, items, last, log, dumped, found,
          dbfile, old_hashdb, new_hashdb, upd, dbpath, run, batch>>

\* What the operations on the index leave alone.
notIndex == <<found, storeVars>>

----------------------------------------------------------------------------
(* Bounds *)

\* File names known to the model.
NPaths == 3

\* add() calls followed in SpecAdd.
MaxAdds == 3

\* Items of the indexes that SpecGroups searches.
NGItems == 4

\* The largest threshold searched with, in 64ths.
MaxThreshold == 2

Paths == 1..NPaths

----------------------------------------------------------------------------
(* Values *)

None == "None"

NoFile == [size |-> -1, first_512 |-> "None", sha |-> "None", ph |-> -1]

\* The contents a file can hold: size, the hash of the first 512 bytes, the
\* hash of the whole content, and the perceptual hash the provider computes
\* for it.  ContentB differs from ContentA only after the first 512 bytes.
ContentA == [size |-> 1000, first_512 |-> "P", sha |-> "H1", ph |-> 0]

ContentB == [size |-> 1000, first_512 |-> "P", sha |-> "H2", ph |-> 1]

ContentC == [size |-> 2000, first_512 |-> "Q", sha |-> "H3", ph |-> 3]

Contents == {ContentA, ContentB, ContentC}

\* No store file in the directory.
NoDbFile == [timestamp |-> -1, lines |-> <<>>]

\* No store object, no update_db under way, no run of main.
NoStore == [timestamp |-> -1, hashes |-> <<>>]

NoStep == [fname |-> 0, mtime |-> 0, ctime |-> 0, computes |-> 0, raised |-> FALSE]

NoUpdate == [pc |-> "idle", filenames |-> <<>>, i |-> 0, interrupted |-> FALSE,
             step |-> NoStep]

NoDbPath == [kind |-> "missing", records |-> <<>>]

NoArgs == [hash |-> FALSE, cleanup |-> FALSE, prune |-> FALSE, search |-> FALSE]

NoMain == [pc |-> "idle", args |-> NoArgs, must_exist |-> FALSE, exc |-> None]

\* No cmd_hash under way.
NoBatch == [pc |-> "idle", filenames |-> <<>>, i |-> 0, hashes |-> <<>>, j |-> 0,
            waited |-> 0, clock |-> 0, exc |-> None, saves |-> 0]

\* The store and the database file play no part.
IdleStore ==
    /\ dbfile = NoDbFile
    /\ old_hashdb = NoStore
    /\ new_hashdb = NoStore
    /\ upd = NoUpdate
    /\ dbpath = NoDbPath
    /\ run = NoMain
    /\ batch = NoBatch

Algorithms == {"dct"}

NoHash == -1

NoOp == [op |-> "none", ret |-> 0]

----------------------------------------------------------------------------
(* HashItem *)

\* HashItem.__init__(filename) of a file that can be opened: the file is
\* left open (file holds what reading the rest of it will hash to) and the
\* content hash is not computed yet.
HashItem(filename) ==
    [file_names       |-> {filename},
     file_size        |-> files[filename].size,
     first_512_sha256 |-> files[filename].first_512,
     content_sha256   |-> None,
     file             |-> files[filename].sha,
     image_hash       |-> [a \in Algorithms |-> NoHash]]

\* A content_sha256 that hashes the named file again on every read.
ContentSha256Reread(item) ==
    IF \E f \in item.file_names : files[f] # NoFile
    THEN [item EXCEPT !.content_sha256 =
                         files[CHOOSE f \in item.file_names : files[f] # NoFile].sha,
                      !.file = None]
    ELSE item

\* The content_sha256 property: the item after the read (hash stored, file
\* closed) and the value returned.
ContentSha256Item(item) ==
    IF item.file # None
    THEN [item EXCEPT !.content_sha256 = item.file, !.file = None]
    ELSE item

ContentSha256(item) == ContentSha256Item(item).content_sha256

\* A binary_equal that reads the stored _content_sha256 of self instead of
\* the property.
BinaryEqualOneWay(self, other, fast) ==
    /\ self.file_size = other.file_size
    /\ self.first_512_sha256 = other.first_512_sha256
    /\ (fast \/ self.content_sha256 = ContentSha256(other))

\* HashItem.binary_equal: the value returned.
binary_equal(self, other, fast) ==
    /\ self.file_size = other.file_size
    /\ self.first_512_sha256 = other.first_512_sha256
    /\ (fast \/ ContentSha256(self) = ContentSha256(other))

\* HashItem.binary_equal: whether the two content hashes are read (`and`
\* and `or` short-circuit), which computes and stores them.
ReadsContent(self, other, fast) ==
    /\ self.file_size = other.file_size
    /\ self.first_512_sha256 = other.first_512_sha256
    /\ ~fast

AfterCompare(item, other, fast) ==
    IF ReadsContent(item, other, fast) THEN ContentSha256Item(item) ELSE item

----------------------------------------------------------------------------
(* HashDB *)

\* The loop of HashDB.add from position i on: [items, ret, created], where
\* ret is the position of the item returned.
RECURSIVE AddScan(_, _, _, _, _)
AddScan(its, file_hash, filename, fast, i) ==
    IF i > Len(its)
    THEN [items |-> Append(its, file_hash), ret |-> Len(its) + 1, created |-> TRUE]
    ELSE IF binary_equal(its[i], file_hash, fast)
         THEN [items   |-> [its EXCEPT ![i] =
                              [AfterCompare(its[i], file_hash, fast)
                                 EXCEPT !.file_names = @ \cup {filename}]],
               ret     |-> i,
               created |-> FALSE]
         ELSE AddScan([its EXCEPT ![i] = AfterCompare(its[i], file_hash, fast)],
                      AfterCompare(file_hash, its[i], fast),
                      filename, fast, i + 1)

\* An add that compares with the first item only.
AddFirstOnly(its, filename, fast_compare) ==
    IF its # <<>> /\ binary_equal(its[1], HashItem(filename), fast_compare)
    THEN [items   |-> [its EXCEPT ![1].file_names = @ \cup {filename}],
          ret     |-> 1,
          created |-> FALSE]
    ELSE [items |-> Append(its, HashItem(filename)), ret |-> Len(its) + 1,
          created |-> TRUE]

\* An add that never merges.
AddAlways(its, filename, fast_compare) ==
    [items |-> Append(its, HashItem(filename)), ret |-> Len(its) + 1, created |-> TRUE]

\* HashDB.add(filename, fast_compare) of a file that can be opened.
HashDB_add(its, filename, fast_compare) ==
    AddScan(its, HashItem(filename), filename, fast_compare, 1)

----------------------------------------------------------------------------
\* A remove that drops the head of the list, whatever the item.
BadRemove(its, item) ==
    IF its = <<>> THEN its ELSE Tail(its)

\* list.remove(item): the list without its first element equal to item.
RECURSIVE Remove(_, _)
Remove(its, item) ==
    IF its = <<>> THEN <<>>
    ELSE IF Head(its) = item THEN Tail(its)
    ELSE <<Head(its)>> \o Remove(Tail(its), item)

\* The loop of HashDB.prune over the copy items[:], from position i on.
RECURSIVE PruneLoop(_, _, _)
PruneLoop(copy, its, i) ==
    IF i > Len(copy) THEN its
    ELSE IF copy[i].file_names = {}
         THEN PruneLoop(copy, Remove(its, copy[i]), i + 1)
         ELSE PruneLoop(copy, its, i + 1)

HashDB_prune(its) == PruneLoop(its, its, 1)

\* HashItem.check_file_names(fast): the names whose file can still be
\* opened and is binary_equal to the item.
NamesOk(item, fast) ==
    {f \in item.file_names :
        /\ files[f] # NoFile
        /\ binary_equal(item, HashItem(f), fast)}

\* A check that keeps every name whose file can be opened, whatever it holds.
CheckNamesExist(item, fast) ==
    [item EXCEPT !.file_names = {f \in item.file_names : files[f] # NoFile}]

check_file_names(item, fast) ==
    LET read == \E f \in item.file_names :
                    /\ files[f] # NoFile
                    /\ ReadsContent(item, HashItem(f), fast)
        self == IF read THEN ContentSha256Item(item) ELSE item
    IN  [self EXCEPT !.file_names = NamesOk(item, fast)]

----------------------------------------------------------------------------
(* The perceptual hash as text: DctImageHash.__str__ and DctImageHash.load *)

\* The width of '%016X'.
HexWidth == 16

RECURSIVE HexDigits(_, _)
HexDigits(n, width) ==
    IF width = 0 THEN <<>>
    ELSE Append(HexDigits(n \div 16, width - 1), n % 16)

\* '%016X' % self._hash, a sequence of hexadecimal digits.
DctStr(hash) == HexDigits(hash, HexWidth)

RECURSIVE IntOfHex(_)
IntOfHex(hexhash) ==
    IF hexhash = <<>> THEN 0
    ELSE 16 * IntOfHex(SubSeq(hexhash, 1, Len(hexhash) - 1)) + hexhash[Len(hexhash)]

\* DctImageHash.load(hexhash) called on an instance: int(hexhash, 16).
DctLoad(hexhash) == IntOfHex(hexhash)

----------------------------------------------------------------------------
(* dump and load *)

\* A key ph_<algorithm> that the dict does not hold.
NoKey == <<>>

\* HashItem.dump(): it reads content_sha256, which computes it.
HashItem_dump(item) ==
    [names             |-> item.file_names,
     size              |-> item.file_size,
     first_512b_sha256 |-> item.first_512_sha256,
     sha256            |-> ContentSha256(item),
     ph                |-> [a \in Algorithms |->
                              IF item.image_hash[a] = NoHash THEN NoKey
                              ELSE DctStr(item.image_hash[a])]]

HashDB_dump(its) == [i \in 1..Len(its) |-> HashItem_dump(its[i])]

\* HashItem.load(d) calls load(value) on the class that get_subclass
\* returns; load is an instance method load(self, hexhash), so the call
\* lacks an argument and raises TypeError for every ph_ key.
LoadRaises(d) == \E a \in Algorithms : d.ph[a] # NoKey

HashItem_load(d) ==
    [file_names       |-> d.names,
     file_size        |-> d.size,
     first_512_sha256 |-> d.first_512b_sha256,
     content_sha256   |-> d.sha256,
     file             |-> None,
     image_hash       |-> [a \in Algorithms |-> NoHash]]

\* HashDB.load(l): "TypeError", or the list of items.
HashDB_load(l) ==
    IF \E i \in 1..Len(l) : LoadRaises(l[i])
    THEN [error |-> "TypeError", items |-> <<>>]
    ELSE [error |-> None, items |-> [i \in 1..Len(l) |-> HashItem_load(l[i])]]

----------------------------------------------------------------------------
(* Searching the index: find_pairs and find_groups *)

\* The bits of a DCT hash.
HashBits == 64

\* The number of the lowest n bits in which a and b differ.
RECURSIVE DiffBits(_, _, _)
DiffBits(a, b, n) ==
    IF n = 0 \/ (a = 0 /\ b = 0) THEN 0
    ELSE (IF a % 2 # b % 2 THEN 1 ELSE 0) + DiffBits(a \div 2, b \div 2, n - 1)

\* phash.hamming_distance(a, b): the number of bits that differ.
hamming_distance(a, b) == DiffBits(a, b, HashBits)

\* DctImageHash.distance, in 64ths: hamming_distance / 64.
DctDistance(hash_a, hash_b) == hamming_distance(hash_a, hash_b)

\* The last of the sorted names.
LastName(file_names) == CHOOSE f \in file_names : \A g \in file_names : g <= f

\* sorted(file_names)[0]
FirstName(file_names) == CHOOSE f \in file_names : \A g \in file_names : f <= g

\* itertools.combinations(range(1, n + 1), 2), from <<a, b>> on.
RECURSIVE Combinations(_, _, _)
Combinations(n, a, b) ==
    IF a >= n THEN <<>>
    ELSE IF b > n THEN Combinations(n, a + 1, a + 2)
    ELSE <<<<a, b>>>> \o Combinations(n, a, b + 1)

\* HashDB.find_pairs: the triples <<fname_a, fname_b, distance>> yielded,
\* in order.
find_pairs(its, threshold, hash_name) ==
    LET close(c) ==
            /\ its[c[1]].file_names # {} /\ its[c[2]].file_names # {}
            /\ its[c[1]].image_hash[hash_name] # NoHash
            /\ its[c[2]].image_hash[hash_name] # NoHash
            /\ DctDistance(its[c[1]].image_hash[hash_name],
                           its[c[2]].image_hash[hash_name]) <= threshold
        sel == SelectSeq(Combinations(Len(its), 1, 2), close)
    IN  [k \in 1..Len(sel) |->
            <<FirstName(its[sel[k][1]].file_names),
              FirstName(its[sel[k][2]].file_names),
              DctDistance(its[sel[k][1]].image_hash[hash_name],
                          its[sel[k][2]].image_hash[hash_name])>>]

\* sorted((fn, dist) for fn, dist in current_group.items())
RECURSIVE SortedGroup(_)
SortedGroup(current_group) ==
    IF DOMAIN current_group = {} THEN <<>>
    ELSE LET fn == FirstName(DOMAIN current_group)
             rest == [g \in DOMAIN current_group \ {fn} |-> current_group[g]]
         IN  <<<<fn, current_group[fn]>>>> \o SortedGroup(rest)

\* current_fname_a = '' and current_group = dict()
NoName == 0

EmptyGroup == [f \in {} |-> 0]

\* The loop of find_groups from pair k on.  st holds reported_groups,
\* current_fname_a, current_group, the groups yielded so far (out) and the
\* pairs skipped so far (skipped).
RECURSIVE GroupsLoop(_, _, _)
GroupsLoop(pairs, k, st) ==
    IF k > Len(pairs) THEN st
    ELSE LET fname_a == pairs[k][1]
             fname_b == pairs[k][2]
             distance == pairs[k][3]
         IN
         IF \E g \in 1..Len(st.reported_groups) :
                fname_a \in st.reported_groups[g] /\ fname_b \in st.reported_groups[g]
         THEN GroupsLoop(pairs, k + 1,
                         [st EXCEPT !.skipped = Append(@, pairs[k])])
         ELSE IF st.current_fname_a = fname_a
         THEN GroupsLoop(pairs, k + 1,
                  [st EXCEPT !.current_group =
                      [f \in DOMAIN st.current_group \cup {fname_b} |->
                          IF f = fname_b THEN distance ELSE st.current_group[f]]])
         ELSE GroupsLoop(pairs, k + 1,
                  [reported_groups |->
                       IF st.current_fname_a # NoName
                       THEN Append(st.reported_groups,
                                   DOMAIN st.current_group \cup {st.current_fname_a})
                       ELSE st.reported_groups,
                   out |->
                       IF st.current_fname_a # NoName
                       THEN Append(st.out, [fname_a |-> st.current_fname_a,
                                            group   |-> SortedGroup(st.current_group)])
                       ELSE st.out,
                   current_fname_a |-> fname_a,
                   current_group   |-> [f \in {fname_b} |-> distance],
                   skipped         |-> st.skipped])

\* HashDB.find_groups: the state of the generator when find_pairs is
\* exhausted; out is what it yielded.
find_groups(its, threshold, hash_name) ==
    GroupsLoop(find_pairs(its, threshold, hash_name), 1,
               [reported_groups |-> <<>>,
                out             |-> <<>>,
                current_fname_a |-> NoName,
                current_group   |-> EmptyGroup,
                skipped         |-> <<>>])

NoRun == [threshold |-> -1, pairs |-> <<>>, run |-> <<>>]

\* The items of a searched index: item i has the content of its own, no
\* name (after a cleanup), two names of which the first is smaller than
\* the names of the later items, or one name that is larger than theirs;
\* and no hash or one of HashValues.
HashValues == {0, 1, 3}

GroupItem(i, names, hash) ==
    [file_names       |-> names,
     file_size        |-> 1000 + i,
     first_512_sha256 |-> "P",
     content_sha256   |-> "H",
     file             |-> None,
     image_hash       |-> [a \in Algorithms |-> hash]]

GroupItems(i) ==
    {GroupItem(i, names, hash) :
        names \in {{}, {i, NGItems + i}, {3 * NGItems + 1 - i}},
        hash \in HashValues \cup {NoHash}}

RECURSIVE GroupIndexes(_)
GroupIndexes(n) ==
    IF n = 0 THEN {<<>>}
    ELSE {Append(its, item) : its \in GroupIndexes(n - 1), item \in GroupItems(n)}

InitGroups ==
    /\ files = [p \in Paths |-> NoFile]
    /\ items \in GroupIndexes(NGItems)
    /\ last = NoOp
    /\ log = <<>>
    /\ dumped = <<>>
    /\ found = NoRun
    /\ IdleStore

\* for ... in self.hashdb.find_groups(threshold, hash_name): the generator
\* is run to its end.
FindGroups(threshold, hash_name) ==
    /\ found = NoRun
    /\ found' = [threshold |-> threshold,
                 pairs     |-> find_pairs(items, threshold, hash_name),
                 run       |-> find_groups(items, threshold, hash_name)]
    /\ UNCHANGED <<files, items, last, log, dumped, storeVars>>

NextGroups == \E t \in 0..MaxThreshold, a \in Algorithms : FindGroups(t, a)

SpecGroups == InitGroups /\ [][NextGroups]_vars

\* Items of the indexes that find_pairs is run on by itself.
NPairItems == 3

InitPairs ==
    /\ files = [p \in Paths |-> NoFile]
    /\ items \in GroupIndexes(NPairItems)
    /\ last = NoOp
    /\ log = <<>>
    /\ dumped = <<>>
    /\ found = NoRun
    /\ IdleStore

\* for ... in self.hashdb.find_pairs(threshold, hash_name): the generator
\* is run to its end.
FindPairs(threshold, hash_name) ==
    /\ found = NoRun
    /\ found' = [threshold |-> threshold,
                 pairs     |-> find_pairs(items, threshold, hash_name),
                 run       |-> <<>>]
    /\ UNCHANGED <<files, items, last, log, dumped, storeVars>>

NextPairs == \E t \in 0..MaxThreshold, a \in Algorithms : FindPairs(t, a)

SpecPairs == InitPairs /\ [][NextPairs]_vars

----------------------------------------------------------------------------
(* Actions on the index *)

Op(op, ret) == [op |-> op, ret |-> ret]

Add(filename, fast_compare) ==
    /\ IF files[filename] = NoFile
       THEN items' = items
       ELSE items' = HashDB_add(items, filename, fast_compare).items
    /\ last' = NoOp
    /\ UNCHANGED files

\* HashDB.prune(); ret is the number of items removed.
Prune ==
    /\ items' = HashDB_prune(items)
    /\ last' = Op("prune", Len(items) - Len(items'))
    /\ UNCHANGED files

\* The loop of cmd_cleanup: check_file_names on every item; ret is the
\* number of names removed.
RECURSIVE CountNames(_)
CountNames(its) ==
    IF its = <<>> THEN 0
    ELSE Cardinality(Head(its).file_names) + CountNames(Tail(its))

Cleanup(fast) ==
    /\ items' = [i \in 1..Len(items) |-> check_file_names(items[i], fast)]
    /\ last' = Op("cleanup", CountNames(items) - CountNames(items'))
    /\ UNCHANGED files

\* update_db for one file: add it, and if the item returned has no hash
\* for the algorithm, compute it and write it into the item.
UpdateDb(filename, hash_name) ==
    /\ files[filename] # NoFile
    /\ LET r == HashDB_add(items, filename, FALSE)
           computed == r.items[r.ret].image_hash[hash_name] = NoHash
       IN /\ items' = IF computed
                      THEN [r.items EXCEPT ![r.ret].image_hash[hash_name] =
                                              files[filename].ph]
                      ELSE r.items
          /\ last' = NoOp
    /\ UNCHANGED files

\* The file is deleted by another program.
RemoveFile(filename) ==
    /\ files[filename] # NoFile
    /\ files' = [files EXCEPT ![filename] = NoFile]
    /\ last' = NoOp
    /\ UNCHANGED items

\* hashdb.dump(): every item's content hash is computed by the dump.
Dump ==
    /\ dumped' = HashDB_dump(items)
    /\ items' = [i \in 1..Len(items) |-> ContentSha256Item(items[i])]
    /\ last' = Op("dump", Len(items))
    /\ UNCHANGED files

\* HashDB.load(dumped): the index is replaced unless the load raises.
Load ==
    /\ LET r == HashDB_load(dumped) IN
       /\ items' = IF r.error = None THEN r.items ELSE items
       /\ last' = Op("load", IF r.error = None THEN 1 ELSE 0)
    /\ UNCHANGED <<files, dumped>>

\* The index operations treat all file names alike, so the file systems are
\* drawn up to a renaming of the files: which content each name holds is
\* non-decreasing in ContentOrder.  The operations still take the names in
\* every order.
ContentOrder == <<NoFile, ContentA, ContentB, ContentC>>

Rank(c) == CHOOSE i \in 1..Len(ContentOrder) : ContentOrder[i] = c

InitFiles ==
    files \in {f \in [Paths -> Contents \cup {NoFile}] :
                 \A p, q \in Paths : p < q => Rank(f[p]) <= Rank(f[q])}

Init ==
    /\ InitFiles
    /\ items = <<>>
    /\ last = NoOp
    /\ log = <<>>
    /\ dumped = <<>>
    /\ found = NoRun
    /\ IdleStore

Next ==
    \/ \E p \in Paths, f \in BOOLEAN : Add(p, f) /\ UNCHANGED <<log, dumped, notIndex>>
    \/ \E p \in Paths, a \in Algorithms : UpdateDb(p, a) /\ UNCHANGED <<log, dumped, notIndex>>
    \/ \E f \in BOOLEAN : Cleanup(f) /\ UNCHANGED <<log, dumped, notIndex>>
    \/ Prune /\ UNCHANGED <<log, dumped, notIndex>>
    \/ \E p \in Paths : RemoveFile(p) /\ UNCHANGED <<log, dumped, notIndex>>

Spec == Init /\ [][Next]_vars

\* The index filled by add() alone, from empty, with the calls logged: the
\* file name, the mode, the position of the item returned (0: IOError) and
\* whether the item is a new one.
AddLogged(filename, fast_compare) ==
    /\ Len(log) < MaxAdds
    /\ Add(filename, fast_compare)
    /\ log' = Append(log, [path    |-> filename,
                            fast    |-> fast_compare,
                            ret     |-> IF files[filename] = NoFile THEN 0
                                        ELSE HashDB_add(items, filename, fast_compare).ret,
                            created |-> Len(items') > Len(items)])
    /\ UNCHANGED <<dumped, notIndex>>

\* The index filled by add() and the hash merge, dumped and loaded.
NextDump ==
    \/ \E p \in Paths, f \in BOOLEAN : Add(p, f) /\ UNCHANGED <<log, dumped, notIndex>>
    \/ \E p \in Paths, a \in Algorithms : UpdateDb(p, a) /\ UNCHANGED <<log, dumped, notIndex>>
    \/ Dump /\ UNCHANGED <<log, notIndex>>
    \/ Load /\ UNCHANGED <<log, notIndex>>

SpecDump == Init /\ [][NextDump]_vars

NextAdd == \E p \in Paths, f \in BOOLEAN : AddLogged(p, f)

SpecAdd == Init /\ [][NextAdd]_vars

----------------------------------------------------------------------------
(* The hash store of a directory and its incremental update (imagedups.py) *)

\* File names of a directory, numbered in sorted order.
NNames == 2

\* The latest whole second of the clock.
MaxSecond == 1

Names == 1..NNames

Seconds == 0..MaxSecond

\* A time of os.stat: whole seconds, and whether a fraction of a second
\* follows them.
Times == [sec : Seconds, frac : BOOLEAN]

\* int(t)
IntOfTime(t) == t.sec

\* max(a, b) of two times
MaxTime(a, b) ==
    IF a.sec > b.sec \/ (a.sec = b.sec /\ a.frac) THEN a ELSE b

\* HashDB.__init__: an empty store stamped with int(time.time()).
HashStore_init(now) == [timestamp |-> now, hashes |-> <<>>]

\* HashDB.get: the hash of fname, or None.
HashStore_get(db, fname) ==
    IF \E i \in 1..Len(db.hashes) : db.hashes[i][1] = fname
    THEN db.hashes[CHOOSE i \in 1..Len(db.hashes) : db.hashes[i][1] = fname][2]
    ELSE NoHash

\* HashDB.add: self._hashes[fname] = imghash on an OrderedDict.
HashStore_add(db, fname, imghash) ==
    [db EXCEPT !.hashes =
        IF \E i \in 1..Len(db.hashes) : db.hashes[i][1] = fname
        THEN [i \in 1..Len(db.hashes) |->
                IF db.hashes[i][1] = fname THEN <<fname, imghash>> ELSE db.hashes[i]]
        ELSE Append(db.hashes, <<fname, imghash>>)]

\* A save that leaves the file of an empty store where it is.
SaveKeepsFile(db, file) ==
    IF db.hashes = <<>> THEN file
    ELSE [timestamp |-> db.timestamp,
          lines     |-> [i \in 1..Len(db.hashes) |->
                           <<DctStr(db.hashes[i][2]), db.hashes[i][1]>>]]

\* HashDB.save(dbfile): the file left behind, given the file found.  An
\* empty store unlinks the file; otherwise the file is written anew with
\* the timestamp and one line "<hash> <fname>" per entry.
HashStore_save(db, file) ==
    IF db.hashes = <<>> THEN NoDbFile
    ELSE [timestamp |-> db.timestamp,
          lines     |-> [i \in 1..Len(db.hashes) |->
                           <<DctStr(db.hashes[i][2]), db.hashes[i][1]>>]]

RECURSIVE LoadLines(_, _, _)
LoadLines(db, lines, i) ==
    IF i > Len(lines) THEN db
    ELSE LoadLines(HashStore_add(db, lines[i][2], DctLoad(lines[i][1])), lines, i + 1)

\* HashDB._parse_control_line for #timestamp, then the loop of HashDB.load.
HashStore_load(db, file) ==
    LoadLines([db EXCEPT !.timestamp = file.timestamp], file.lines, 1)

\* A change time that looks at st_mtime alone.
MtimeChanged(st) == IntOfTime(st.mtime)

\* time_changed(file): int(max(stat.st_ctime, stat.st_mtime))
time_changed(st) == IntOfTime(MaxTime(st.ctime, st.mtime))

\* phash.dct_imagehash(file) as DctImageHash.compute stores it: a value
\* that no store file of the model holds.
dct_imagehash(fname) == 2 + fname

\* The hashes in the store files the model starts with.
StoredHashes == {0, 1}

RECURSIVE StoreHashes(_)
StoreHashes(n) ==
    IF n = 0 THEN {<<>>}
    ELSE LET shorter == StoreHashes(n - 1)
         IN  shorter \cup {Append(h, <<n, x>>) : h \in shorter, x \in StoredHashes}

\* The stores that update_db builds: entries in the order of the sorted
\* file names.
Stores == [timestamp : Seconds, hashes : StoreHashes(NNames)]

\* The store files that save() leaves: none, or one with at least one line.
StoreFiles == {HashStore_save(db, NoDbFile) : db \in Stores}

RECURSIVE SortedLists(_)
SortedLists(n) ==
    IF n = 0 THEN {<<>>}
    ELSE LET shorter == SortedLists(n - 1)
         IN  shorter \cup {Append(l, n) : l \in shorter}

\* update_db, up to the loop: both stores are created, and the old one is
\* loaded unless rebuild is set or the file cannot be opened (IOError).
UpdateStart(filenames, now, rebuild) ==
    /\ upd.pc = "idle"
    /\ dbfile.timestamp <= now
    /\ old_hashdb' = IF rebuild \/ dbfile = NoDbFile THEN HashStore_init(now)
                     ELSE HashStore_load(HashStore_init(now), dbfile)
    /\ new_hashdb' = HashStore_init(now)
    /\ upd' = [pc |-> "loop", filenames |-> filenames, i |-> 1,
               interrupted |-> FALSE, step |-> NoStep]
    /\ UNCHANGED <<indexVars, dbfile, dbpath, run, batch>>

\* One turn of the loop of update_db, for the file whose stat gives mtime
\* and ctime and for which compute succeeds (ok) or raises IOError.
UpdateFile(mtime, ctime, ok) ==
    /\ upd.pc = "loop"
    /\ ~upd.interrupted
    /\ upd.i <= Len(upd.filenames)
    /\ LET fname     == upd.filenames[upd.i]
           imghash   == HashStore_get(old_hashdb, fname)
           st        == [mtime |-> mtime, ctime |-> ctime]
           recompute == \/ imghash = NoHash
                        \/ old_hashdb.timestamp < time_changed(st)
       IN  /\ new_hashdb' =
                 IF recompute
                 THEN IF ok THEN HashStore_add(new_hashdb, fname, dct_imagehash(fname))
                      ELSE new_hashdb
                 ELSE HashStore_add(new_hashdb, fname, imghash)
           /\ upd' = [upd EXCEPT !.i = upd.i + 1,
                                 !.step = [fname    |-> fname,
                                           mtime    |-> mtime,
                                           ctime    |-> ctime,
                                           computes |-> IF recompute THEN 1 ELSE 0,
                                           raised   |-> recompute /\ ~ok]]
    /\ UNCHANGED <<indexVars, dbfile, old_hashdb, dbpath, run, batch>>

\* An exception other than the IOError of compute leaves the loop:
\* KeyboardInterrupt, or the OSError of os.stat.
UpdateInterrupt ==
    /\ upd.pc = "loop"
    /\ ~upd.interrupted
    /\ upd' = [upd EXCEPT !.interrupted = TRUE]
    /\ UNCHANGED <<indexVars, dbfile, old_hashdb, new_hashdb, dbpath, run, batch>>

\* finally: new_hashdb.save(dbfile), after the loop or on the way out.
UpdateSave ==
    /\ upd.pc = "loop"
    /\ upd.interrupted \/ upd.i > Len(upd.filenames)
    /\ dbfile' = HashStore_save(new_hashdb, dbfile)
    /\ upd' = [upd EXCEPT !.pc = "done"]
    /\ UNCHANGED <<indexVars, old_hashdb, new_hashdb, dbpath, run, batch>>

IdleIndex ==
    /\ files = [p \in Paths |-> NoFile]
    /\ items = <<>>
    /\ last = NoOp
    /\ log = <<>>
    /\ dumped = <<>>
    /\ found = NoRun

InitUpdate ==
    /\ IdleIndex
    /\ dbfile \in StoreFiles
    /\ old_hashdb = NoStore
    /\ new_hashdb = NoStore
    /\ upd = NoUpdate
    /\ dbpath = NoDbPath
    /\ run = NoMain
    /\ batch = NoBatch

\* main calls update_db without rebuild.
NextUpdate ==
    \/ \E l \in SortedLists(NNames), now \in Seconds : UpdateStart(l, now, FALSE)
    \/ \E m, c \in Times, ok \in BOOLEAN : UpdateFile(m, c, ok)
    \/ UpdateInterrupt
    \/ UpdateSave

SpecUpdate == InitUpdate /\ [][NextUpdate]_vars

----------------------------------------------------------------------------
(* Saving and loading the database of the index (imagedups/imagedups.py) *)

\* The indexes saved and loaded: empty, or one item.
SaveIndexes == GroupIndexes(0) \cup GroupIndexes(1)

\* A save that leaves the perceptual hashes out of the records.
SaveWithoutHashes(its) ==
    [kind    |-> "records",
     records |-> HashDB_dump([i \in 1..Len(its) |->
                    [its[i] EXCEPT !.image_hash = [a \in Algorithms |-> NoHash]]])]

\* save_database: the gzip file with json.dump of self.hashdb.dump().
save_database(its) == [kind |-> "records", records |-> HashDB_dump(its)]

\* HashDB.save(dbfile) of a store, by itself.  ret: 1 when a file was
\* there before.
Save ==
    /\ dbfile' = HashStore_save(new_hashdb, dbfile)
    /\ last' = Op("save", IF dbfile = NoDbFile THEN 0 ELSE 1)
    /\ UNCHANGED <<files, items, log, dumped, found,
                   old_hashdb, new_hashdb, upd, dbpath, run, batch>>

\* ImageDups.save_database.  ret: 1 when a file was there before.
SaveDatabase ==
    /\ dbpath' = save_database(items)
    /\ items' = [i \in 1..Len(items) |-> ContentSha256Item(items[i])]
    /\ last' = Op("save_database", IF dbpath.kind = "missing" THEN 0 ELSE 1)
    /\ UNCHANGED <<files, log, dumped, found,
                   dbfile, old_hashdb, new_hashdb, upd, run, batch>>

\* Where a save can fail once it has started: in open(), which raises
\* before the file is touched, or in a write after it.
FailPoints == {"open", "write"}

\* HashDB.save(dbfile) that raises.  open(dbfile, 'w') has truncated the
\* file when a print fails: the file holds the lines printed so far, n of
\* them.  An empty store only unlinks, and the OSError of that is caught.
SaveFails(at, n) ==
    /\ new_hashdb.hashes # <<>>
    /\ n < Len(new_hashdb.hashes)
    /\ dbfile' = IF at = "open" THEN dbfile
                 ELSE LET whole == HashStore_save(new_hashdb, dbfile)
                      IN  [whole EXCEPT !.lines = SubSeq(whole.lines, 1, n)]
    /\ last' = Op("save_failed", IF dbfile = NoDbFile THEN 0 ELSE 1)
    /\ UNCHANGED <<files, items, log, dumped, found,
                   old_hashdb, new_hashdb, upd, dbpath, run, batch>>

\* What a write that fails leaves at dbpath, which gzip.open(dbpath, 'wt')
\* has truncated: a gzip stream cut short, or a whole one (closed by the
\* with statement) whose JSON text is cut short.
PartialKinds == {"truncated", "bad_json"}

\* ImageDups.save_database that raises, after self.hashdb.dump().
SaveDatabaseFails(at, kind) ==
    /\ dbpath' = IF at = "open" THEN dbpath ELSE [kind |-> kind, records |-> <<>>]
    /\ items' = [i \in 1..Len(items) |-> ContentSha256Item(items[i])]
    /\ last' = Op("save_database_failed", IF dbpath.kind = "missing" THEN 0 ELSE 1)
    /\ UNCHANGED <<files, log, dumped, found,
                   dbfile, old_hashdb, new_hashdb, upd, run, batch>>

InitSave ==
    /\ files = [p \in Paths |-> NoFile]
    /\ items \in SaveIndexes
    /\ last = NoOp
    /\ log = <<>>
    /\ dumped = <<>>
    /\ found = NoRun
    /\ dbfile \in StoreFiles
    /\ old_hashdb = NoStore
    /\ new_hashdb \in Stores
    /\ upd = NoUpdate
    /\ dbpath \in {NoDbPath, save_database(<<>>)}
    /\ run = NoMain
    /\ batch = NoBatch

NextSave ==
    \/ Save
    \/ SaveDatabase

SpecSave == InitSave /\ [][NextSave]_vars

\* Saves that succeed and saves that fail, from a directory without
\* database files: of a store with an empty index, or of an index with an
\* empty store.
InitSaveFails ==
    /\ files = [p \in Paths |-> NoFile]
    /\ items \in SaveIndexes
    /\ last = NoOp
    /\ log = <<>>
    /\ dumped = <<>>
    /\ found = NoRun
    /\ dbfile = NoDbFile
    /\ old_hashdb = NoStore
    /\ new_hashdb \in Stores
    /\ items = <<>> \/ new_hashdb.hashes = <<>>
    /\ upd = NoUpdate
    /\ dbpath = NoDbPath
    /\ run = NoMain
    /\ batch = NoBatch

NextSaveFails ==
    \/ Save
    \/ SaveDatabase
    \/ \E at \in FailPoints, n \in 0..(NNames - 1) : SaveFails(at, n)
    \/ \E at \in FailPoints, kind \in PartialKinds : SaveDatabaseFails(at, kind)

SpecSaveFails == InitSaveFails /\ [][NextSaveFails]_vars

\* What the file at dbpath can hold besides a saved index: something that
\* is not gzip data, gzip data cut short, gzip data that is not JSON, and
\* JSON that is not an array of records.
CorruptKinds == {"not_gzip", "truncated", "bad_json", "not_records"}

DbPaths ==
    {NoDbPath}
        \cup {[kind |-> k, records |-> <<>>] : k \in CorruptKinds}
        \cup {save_database(its) : its \in SaveIndexes}

\* The exception that the body of the try of load_database raises, or None:
\* gzip.open and the read raise FileNotFoundError or BadGzipFile (both
\* IOError) or EOFError, json.load raises ValueError, HashDB.load raises
\* TypeError or KeyError.
ReadError(db) ==
    CASE db.kind = "missing"     -> "IOError"
      [] db.kind = "not_gzip"    -> "IOError"
      [] db.kind = "truncated"   -> "EOFError"
      [] db.kind = "bad_json"    -> "ValueError"
      [] db.kind = "not_records" -> "TypeError"
      [] db.kind = "records"     -> HashDB_load(db.records).error

\* load_database(must_exist): the items of self.hashdb afterwards and the
\* exception that leaves the method.  Only IOError is caught.
load_database(its, db, must_exist) ==
    LET exc == ReadError(db)
    IN  IF exc = None
        THEN [items |-> HashDB_load(db.records).items, exc |-> None]
        ELSE IF exc = "IOError" /\ ~must_exist
             THEN [items |-> its, exc |-> None]
             ELSE [items |-> its, exc |-> exc]

\* A test of the commands that leaves --search out.
SpecifiedButSearch(args) == args.hash \/ args.cleanup \/ args.prune

CmdSpecified(args) == args.hash \/ args.cleanup \/ args.prune \/ args.search

\* main, up to the commands: the database is loaded.
MainLoad ==
    /\ run.pc = "main"
    /\ LET must_exist == CmdSpecified(run.args) /\ ~run.args.hash
           r          == load_database(items, dbpath, must_exist)
       IN  /\ items' = r.items
           /\ run' = [run EXCEPT !.pc = IF r.exc = None THEN "commands" ELSE "fatal",
                                 !.must_exist = must_exist,
                                 !.exc = r.exc]
    /\ UNCHANGED <<files, last, log, dumped, found,
                   dbfile, old_hashdb, new_hashdb, upd, dbpath, batch>>

InitMain ==
    /\ IdleIndex
    /\ dbfile = NoDbFile
    /\ old_hashdb = NoStore
    /\ new_hashdb = NoStore
    /\ upd = NoUpdate
    /\ dbpath \in DbPaths
    /\ run \in [pc : {"main"}, args : [hash : BOOLEAN, cleanup : BOOLEAN,
                                       prune : BOOLEAN, search : BOOLEAN],
                must_exist : {FALSE}, exc : {None}]
    /\ batch = NoBatch

NextMain == MainLoad

SpecMain == InitMain /\ [][NextMain]_vars

----------------------------------------------------------------------------
(* The hash phase: cmd_hash and update_db with its pool of hash tasks     *)
(* (imagedups/imagedups.py)                                                *)

\* max_workers of the pool: os.cpu_count() or 4.
NWorkers == 2

\* Time passes in ticks of TickLength time units, MaxTicks of them at most.
TickLength == 40

MaxTicks == 2

\* future.result(timeout=60)
Timeout == 60

\* compute_hash(imagehash_class, filepath): the hash of the content read
\* from filepath.
compute_hash(filepath) == files[filepath].ph

Finished(task) == task.state \in {"done", "failed"}

Running(hashes) == {k \in 1..Len(hashes) : hashes[k].state = "running"}

\* The work item a free worker takes: the first one queued, if a worker is
\* free.
Startable(hashes) ==
    {k \in 1..Len(hashes) :
        /\ hashes[k].state = "queued"
        /\ \A m \in 1..(k - 1) : hashes[m].state # "queued"
        /\ Cardinality(Running(hashes)) < NWorkers}

\* The body of the with statement is running (in one of its two loops).
InBody == batch.pc \in {"submit", "merge"}

\* The merge loop is blocked in future.result of task j.
Waiting ==
    /\ batch.pc = "merge"
    /\ batch.j <= Len(batch.hashes)
    /\ ~Finished(batch.hashes[batch.j])

\* The wait of future.result(timeout=60) has gone beyond its timeout.
TimedOut == batch.waited * TickLength > Timeout

\* A write of the result into the last item of the index, whatever item
\* the task was submitted for.
MergeIntoLast(its, task, hash_name) ==
    [its EXCEPT ![Len(its)].image_hash[hash_name] = compute_hash(task.path)]

\* file_hash.image_hash[hash_name] = imghash
MergeInto(its, task, hash_name) ==
    [its EXCEPT ![task.item].image_hash[hash_name] = compute_hash(task.path)]

\* A result that may be read while the task is still running.
ResultEarly(task) == task.state # "queued"

\* future.result returns: the task is done.
ResultReady(task) == task.state = "done"

\* The with statement is left, after the second loop or with exception exc:
\* executor.shutdown(wait=True) blocks until every task has run.  The
\* futures are not read any more and the executor is gone: what is kept of
\* a task is the item and the file it was submitted for.
LeaveWith(exc) ==
    [batch EXCEPT
        !.pc = "finally",
        !.exc = exc,
        !.clock = 0,
        !.waited = 0,
        !.hashes = [k \in 1..Len(batch.hashes) |->
                      [batch.hashes[k] EXCEPT !.state = "joined", !.ran = 0]]]

\* One turn of the first loop of update_db: the file is added to the index
\* and, if its item has no hash for the algorithm, a task is submitted.
\* open() of a file that cannot be opened raises IOError, which nothing
\* in add, update_db or cmd_hash catches.
HashAdd(hash_name) ==
    /\ batch.pc = "submit"
    /\ LET filepath == batch.filenames[batch.i]
           r        == HashDB_add(items, filepath, FALSE)
           pc       == IF batch.i = Len(batch.filenames) THEN "merge" ELSE "submit"
       IN  IF files[filepath] = NoFile
           THEN /\ batch' = LeaveWith("IOError")
                /\ items' = items
           ELSE /\ items' = r.items
                /\ batch' =
                      [batch EXCEPT
                          !.pc = pc,
                          !.i = batch.i + 1,
                          !.hashes =
                              IF r.items[r.ret].image_hash[hash_name] = NoHash
                              THEN Append(batch.hashes,
                                          [item  |-> r.ret,
                                           path  |-> filepath,
                                           state |-> "queued",
                                           ran   |-> 0])
                              ELSE batch.hashes]
    /\ UNCHANGED <<files, last, log, dumped, found,
                   dbfile, old_hashdb, new_hashdb, upd, dbpath, run>>

\* A worker thread takes the next work item.
TaskStart(k) ==
    /\ InBody
    /\ k \in Startable(batch.hashes)
    /\ batch' = [batch EXCEPT !.hashes[k].state = "running"]
    /\ UNCHANGED <<indexVars, dbfile, old_hashdb, new_hashdb, upd, dbpath, run>>

\* compute_hash returns in its worker thread, or raises.
TaskDone(k, ok) ==
    /\ InBody
    /\ k \in Running(batch.hashes)
    /\ batch' = [batch EXCEPT !.hashes[k].state = IF ok THEN "done" ELSE "failed"]
    /\ UNCHANGED <<indexVars, dbfile, old_hashdb, new_hashdb, upd, dbpath, run>>

\* Time passes: for the running tasks and for the wait of the merge loop.
\* A free worker takes a queued item at once, and result(timeout=60) does
\* not wait beyond its timeout.
Tick ==
    /\ InBody
    /\ batch.clock < MaxTicks
    /\ Startable(batch.hashes) = {}
    /\ ~(batch.pc = "merge" /\ TimedOut)
    /\ batch' = [batch EXCEPT
                    !.clock = batch.clock + 1,
                    !.waited = IF Waiting THEN batch.waited + 1 ELSE batch.waited,
                    !.hashes = [k \in 1..Len(batch.hashes) |->
                                  IF batch.hashes[k].state = "running"
                                  THEN [batch.hashes[k] EXCEPT !.ran = @ + 1]
                                  ELSE batch.hashes[k]]]
    /\ UNCHANGED <<indexVars, dbfile, old_hashdb, new_hashdb, upd, dbpath, run>>

\* One turn of the second loop of update_db: the result of task j, there
\* within the timeout, is written into its item.
Merge(hash_name) ==
    /\ batch.pc = "merge"
    /\ batch.j <= Len(batch.hashes)
    /\ ResultReady(batch.hashes[batch.j])
    /\ ~TimedOut
    /\ items' = MergeInto(items, batch.hashes[batch.j], hash_name)
    /\ batch' = [batch EXCEPT !.j = batch.j + 1, !.waited = 0]
    /\ UNCHANGED <<files, last, log, dumped, found,
                   dbfile, old_hashdb, new_hashdb, upd, dbpath, run>>

\* future.result re-raises the exception of compute_hash.
MergeFail ==
    /\ batch.pc = "merge"
    /\ batch.j <= Len(batch.hashes)
    /\ batch.hashes[batch.j].state = "failed"
    /\ ~TimedOut
    /\ batch' = LeaveWith("IOError")
    /\ UNCHANGED <<indexVars, dbfile, old_hashdb, new_hashdb, upd, dbpath, run>>

\* future.result(timeout=60) raises TimeoutError.
MergeTimeout ==
    /\ batch.pc = "merge"
    /\ batch.j <= Len(batch.hashes)
    /\ TimedOut
    /\ batch' = LeaveWith("TimeoutError")
    /\ UNCHANGED <<indexVars, dbfile, old_hashdb, new_hashdb, upd, dbpath, run>>

\* Ctrl-C in either loop.
HashInterrupt ==
    /\ InBody
    /\ batch.pc = "submit" \/ batch.j <= Len(batch.hashes)
    /\ batch' = LeaveWith("KeyboardInterrupt")
    /\ UNCHANGED <<indexVars, dbfile, old_hashdb, new_hashdb, upd, dbpath, run>>

\* The second loop is through and the with statement is left.
HashExit ==
    /\ batch.pc = "merge"
    /\ batch.j > Len(batch.hashes)
    /\ batch' = LeaveWith(None)
    /\ UNCHANGED <<indexVars, dbfile, old_hashdb, new_hashdb, upd, dbpath, run>>

\* finally: self.save_database(), and cmd_hash returns or the exception
\* goes on to the caller.
HashSave ==
    /\ batch.pc = "finally"
    /\ dbpath' = save_database(items)
    /\ items' = [i \in 1..Len(items) |-> ContentSha256Item(items[i])]
    /\ batch' = [batch EXCEPT !.pc = IF batch.exc = None THEN "done" ELSE "raised",
                              !.saves = batch.saves + 1]
    /\ UNCHANGED <<files, last, log, dumped, found,
                   dbfile, old_hashdb, new_hashdb, upd, run>>

\* all_directories_with_filenames: the sorted file names of one directory,
\* which holds the first n files, n up to NNames.
Batches ==
    {[NoBatch EXCEPT !.pc = IF n = 0 THEN "merge" ELSE "submit",
                     !.filenames = [m \in 1..n |-> m], !.i = 1, !.j = 1] : n \in 0..NNames}

\* update_db takes the files of a directory in the order of their names, so
\* every assignment of contents to them is a file system of its own.  The
\* files beyond the first NNames are outside the directory; the last one, if
\* there is one, is the only file of the directory above, which os.walk
\* visits first.
InitHashFiles ==
    files \in {f \in [Paths -> Contents \cup {NoFile}] :
                 \A p \in Paths : (NNames < p /\ p < NPaths) => f[p] = NoFile}

\* The index when update_db is called: empty, or what update_db of the
\* directory above has left (its file added and its hash merged).
PriorIndex(hash_name) ==
    MergeInto(HashDB_add(<<>>, NPaths, FALSE).items,
              [item |-> 1, path |-> NPaths, state |-> "done", ran |-> 0],
              hash_name)

HashIndexes ==
    {<<>>} \cup
    IF NNames < NPaths /\ files[NPaths] # NoFile
    THEN {PriorIndex(a) : a \in Algorithms}
    ELSE {}

InitHash ==
    /\ InitHashFiles
    /\ items \in HashIndexes
    /\ last = NoOp
    /\ log = <<>>
    /\ dumped = <<>>
    /\ found = NoRun
    /\ dbfile = NoDbFile
    /\ old_hashdb = NoStore
    /\ new_hashdb = NoStore
    /\ upd = NoUpdate
    /\ dbpath = NoDbPath
    /\ run = NoMain
    /\ batch \in Batches

NextHash ==
    \/ \E a \in Algorithms : HashAdd(a)
    \/ \E k \in 1..NNames : TaskStart(k)
    \/ \E k \in 1..NNames, ok \in BOOLEAN : TaskDone(k, ok)
    \/ Tick
    \/ \E a \in Algorithms : Merge(a)
    \/ MergeFail
    \/ MergeTimeout
    \/ HashInterrupt
    \/ HashExit
    \/ HashSave

SpecHash == InitHash /\ [][NextHash]_vars

----------------------------------------------------------------------------
(* Paths: filter_by_path and list_top_paths (dedupimages/hashdb.py)        *)

\* The characters of the file names, in the order of their code points.
Chars == <<"/", "a", "b", "x">>

\* ord(c), up to a shift.
Ord(c) == CHOOSE i \in 1..Len(Chars) : Chars[i] = c

\* The text of the file names, as strings of characters:
\*     /a/b/x   /a/x   /ab/x   /b/x   /x
\* They are in lexicographic order, like their numbers.
FileNames ==
    << <<"/", "a", "/", "b", "/", "x">>,
       <<"/", "a", "/", "x">>,
       <<"/", "a", "b", "/", "x">>,
       <<"/", "b", "/", "x">>,
       <<"/", "x">> >>

NameOf(filename) == FileNames[filename]

\* str.startswith
StartsWith(s, prefix) ==
    /\ Len(prefix) <= Len(s)
    /\ SubSeq(s, 1, Len(prefix)) = prefix

\* s < t for strings
RECURSIVE StrLess(_, _)
StrLess(s, t) ==
    IF t = <<>> THEN FALSE
    ELSE IF s = <<>> THEN TRUE
    ELSE IF Head(s) # Head(t) THEN Ord(Head(s)) < Ord(Head(t))
    ELSE StrLess(Tail(s), Tail(t))

\* str.rstrip('/')
RECURSIVE RStrip(_)
RStrip(s) ==
    IF s # <<>> /\ s[Len(s)] = "/" THEN RStrip(SubSeq(s, 1, Len(s) - 1)) ELSE s

\* os.path.dirname: the text up to the last slash, without trailing
\* slashes unless it is made of slashes only.
dirname(p) ==
    LET slashes == {i \in 1..Len(p) : p[i] = "/"}
        i    == IF slashes = {} THEN 0
                ELSE CHOOSE m \in slashes : \A n \in slashes : n <= m
        head == SubSeq(p, 1, i)
    IN  IF head # <<>> /\ \E n \in 1..Len(head) : head[n] # "/"
        THEN RStrip(head)
        ELSE head

\* HashDB.filter_by_path(path)
filter_by_path(its, path) ==
    LET filtered_names(item) ==
            {name \in item.file_names : StartsWith(NameOf(name), path)}
        kept == SelectSeq(its, LAMBDA item : filtered_names(item) # {})
    IN  [i \in 1..Len(kept) |->
            [kept[i] EXCEPT !.file_names = filtered_names(kept[i])]]

\* list.sort() of a list of strings without duplicates.
RECURSIVE SortPaths(_)
SortPaths(paths) ==
    IF paths = <<>> THEN <<>>
    ELSE LET k == CHOOSE m \in 1..Len(paths) :
                      \A n \in 1..Len(paths) : n = m \/ StrLess(paths[m], paths[n])
         IN  <<paths[k]>> \o
             SortPaths(SubSeq(paths, 1, k - 1) \o SubSeq(paths, k + 1, Len(paths)))

\* The loops of list_top_paths over the file names in the order visit,
\* from the k-th on.  paths never holds a string twice (a string is
\* appended only when no element is a prefix of it), so paths.remove(path)
\* removes the element path itself.
RECURSIVE TopPathsLoop(_, _, _)
TopPathsLoop(paths, visit, k) ==
    IF k > Len(visit) THEN paths
    ELSE LET dir == dirname(NameOf(visit[k]))
         IN  IF \E n \in 1..Len(paths) : StartsWith(dir, paths[n])
             THEN TopPathsLoop(paths, visit, k + 1)
             ELSE TopPathsLoop(
                      Append(SelectSeq(paths, LAMBDA path : ~StartsWith(path, dir)), dir),
                      visit, k + 1)

\* HashDB.list_top_paths(), the file names visited in the order visit.
list_top_paths(visit) == SortPaths(TopPathsLoop(<<>>, visit, 1))

\* The orders in which the iteration of a set of names can give them.
RECURSIVE Orders(_)
Orders(names) ==
    IF names = {} THEN {<<>>}
    ELSE UNION {{<<n>> \o o : o \in Orders(names \ {n})} : n \in names}

\* for item in self.items: for filename in item.file_names: the orders in
\* which the file names can be visited, from item i on.
RECURSIVE Visits(_, _)
Visits(its, i) ==
    IF i > Len(its) THEN {<<>>}
    ELSE {o \o v : o \in Orders(its[i].file_names), v \in Visits(its, i + 1)}

\* Items of the indexes whose paths are filtered and listed.
NPathItems == 2

\* The indexes: every file name is an alias of one of the items or of
\* none, and an item can be without aliases (after a cleanup).
PathIndexes ==
    {[i \in 1..NPathItems |-> GroupItem(i, {p \in Paths : g[p] = i}, i)] :
        g \in [Paths -> 0..NPathItems]}

\* os.path.realpath(self.path) of the directories given to --search: the
\* root, the directories of the file names and their parents.
SearchPaths ==
    LET dirs == {dirname(NameOf(p)) : p \in Paths}
    IN  dirs \cup {dirname(d) : d \in dirs}

InitPaths ==
    /\ files = [p \in Paths |-> NoFile]
    /\ items \in PathIndexes
    /\ last = NoOp
    /\ log = <<>>
    /\ dumped = <<>>
    /\ found = NoRun
    /\ IdleStore

\* cmd_search: self.hashdb.filter_by_path(os.path.realpath(self.path)).
\* log keeps the path given.
FilterByPath(path) ==
    /\ items' = filter_by_path(items, path)
    /\ last' = Op("filter_by_path", Len(items) - Len(items'))
    /\ log' = <<path>>
    /\ UNCHANGED <<files, dumped, found, storeVars>>

\* list_top_paths(), the sets of names iterated in one of their orders.
\* dumped keeps the list returned.
ListTopPaths(visit) ==
    /\ dumped' = list_top_paths(visit)
    /\ last' = Op("list_top_paths", Len(dumped'))
    /\ UNCHANGED <<files, items, log, found, storeVars>>

NextPaths ==
    \/ \E path \in SearchPaths : FilterByPath(path)
    \/ \E visit \in Visits(items, 1) : ListTopPaths(visit)

SpecPaths == InitPaths /\ [][NextPaths]_vars

----------------------------------------------------------------------------
(* Looking up a sample: query (dedupimages/hashdb.py)                      *)

\* The loop of HashDB.query from item i on: the pairs <<fname, distance>>
\* yielded so far and the exception that ends the generator, if any.
\* imghash.distance(item_hash) reads item_hash._hash, which raises
\* AttributeError when the item has no hash for hash_name (item_hash is
\* None); sorted(item.file_names)[0] raises IndexError when the item has
\* no file names.
RECURSIVE QueryLoop(_, _, _, _, _, _)
QueryLoop(its, imghash, threshold, hash_name, i, out) ==
    IF i > Len(its) THEN [out |-> out, exc |-> None]
    ELSE LET item_hash == its[i].image_hash[hash_name]
         IN  IF item_hash = NoHash THEN [out |-> out, exc |-> "AttributeError"]
             ELSE IF DctDistance(imghash, item_hash) > threshold
             THEN QueryLoop(its, imghash, threshold, hash_name, i + 1, out)
             ELSE IF its[i].file_names = {} THEN [out |-> out, exc |-> "IndexError"]
             ELSE QueryLoop(its, imghash, threshold, hash_name, i + 1,
                            Append(out, <<FirstName(its[i].file_names),
                                          DctDistance(imghash, item_hash)>>))

\* HashDB.query(imghash, threshold, hash_name), run to its end.
query(its, imghash, threshold, hash_name) ==
    QueryLoop(its, imghash, threshold, hash_name, 1, <<>>)

\* compare_with_db: for fname, distance in self.hashdb.query(imghash,
\* threshold, hash_name), imghash being the hash of the sample file.
Query(imghash, threshold, hash_name) ==
    /\ found = NoRun
    /\ found' = [threshold |-> threshold,
                 imghash   |-> imghash,
                 query     |-> query(items, imghash, threshold, hash_name)]
    /\ UNCHANGED <<files, items, last, log, dumped, storeVars>>

NextQuery ==
    \E imghash \in HashValues, t \in 0..MaxThreshold, a \in Algorithms : Query(imghash, t, a)

SpecQuery == InitPairs /\ [][NextQuery]_vars

----------------------------------------------------------------------------
(* The index while other programs change the files *)

\* File names that are hashed, checked and changed.
NChangePaths == 1

ChangePaths == 1..NChangePaths

\* Another program writes other content into the file, or creates it.
WriteFile(filename, content) ==
    /\ files[filename] # content
    /\ files' = [files EXCEPT ![filename] = content]
    /\ last' = NoOp
    /\ UNCHANGED items

\* HashDB.dump() as save_database calls it: what it leaves of the items.
Dumped(its) == [i \in 1..Len(its) |-> ContentSha256Item(its[i])]

\* cmd_hash of a directory that holds one image, up to save_database:
\* update_db adds the file and merges its hash; exc is the IOError of a
\* file that cannot be opened.
cmd_hash(its, filename, hash_name) ==
    IF files[filename] = NoFile
    THEN [items |-> its, exc |-> "IOError"]
    ELSE LET r == HashDB_add(its, filename, FALSE)
         IN  [items |-> IF r.items[r.ret].image_hash[hash_name] = NoHash
                        THEN [r.items EXCEPT ![r.ret].image_hash[hash_name] =
                                                compute_hash(filename)]
                        ELSE r.items,
              exc   |-> None]

\* cmd_cleanup, up to save_database: check_file_names(fast=True) on every
\* item.
cmd_cleanup(its) == [i \in 1..Len(its) |-> check_file_names(its[i], TRUE)]

\* cmd_hash: save_database runs in the finally clause, also when the file
\* cannot be opened.
CmdHash(filename, hash_name) ==
    /\ LET r == cmd_hash(items, filename, hash_name)
       IN  /\ items' = Dumped(r.items)
           /\ dbpath' = save_database(r.items)
    /\ last' = NoOp
    /\ log' = <<>>
    /\ UNCHANGED <<files, dumped, found,
                   dbfile, old_hashdb, new_hashdb, upd, run, batch>>

\* check_file_names(fast) on every item, in either mode; log keeps the mode.
CheckFileNames(fast) ==
    /\ Cleanup(fast)
    /\ log' = <<fast>>
    /\ UNCHANGED <<dumped, notIndex>>

\* cmd_cleanup with its save_database.  ret is the number of names removed.
CmdCleanup ==
    /\ LET checked == cmd_cleanup(items)
       IN  /\ items' = Dumped(checked)
           /\ dbpath' = save_database(checked)
           /\ last' = Op("cmd_cleanup", CountNames(items) - CountNames(checked))
    /\ log' = <<>>
    /\ UNCHANGED <<files, dumped, found,
                   dbfile, old_hashdb, new_hashdb, upd, run, batch>>

\* cmd_prune: prune(), then save_database.  ret is the number of items
\* removed.
CmdPrune ==
    /\ LET pruned == HashDB_prune(items)
       IN  /\ items' = Dumped(pruned)
           /\ dbpath' = save_database(pruned)
           /\ last' = Op("cmd_prune", Len(items) - Len(pruned))
    /\ log' = <<>>
    /\ UNCHANGED <<files, dumped, found,
                   dbfile, old_hashdb, new_hashdb, upd, run, batch>>

InitChange ==
    /\ files \in {f \in [Paths -> Contents \cup {NoFile}] :
                    \A p \in Paths \ ChangePaths : f[p] = NoFile}
    /\ items = <<>>
    /\ last = NoOp
    /\ log = <<>>
    /\ dumped = <<>>
    /\ found = NoRun
    /\ IdleStore

NextChange ==
    \/ \E p \in ChangePaths, a \in Algorithms : CmdHash(p, a)
    \/ \E f \in BOOLEAN : CheckFileNames(f)
    \/ CmdCleanup
    \/ CmdPrune
    \/ \E p \in ChangePaths :
          RemoveFile(p) /\ log' = <<>> /\ UNCHANGED <<dumped, notIndex>>
    \/ \E p \in ChangePaths, c \in Contents :
          WriteFile(p, c) /\ log' = <<>> /\ UNCHANGED <<dumped, notIndex>>

SpecChange == InitChange /\ [][NextChange]_vars

----------------------------------------------------------------------------
(* The life of one HashItem: its file handle and its content hash *)

\* What HashItem.__init__(filename) does with the file.
ProbeOps == <<"open", "read">>

\* What a read of content_sha256 does with the file: it reads the rest and
\* closes the handle when the item holds one, and nothing otherwise.
ContentSha256Ops(item) ==
    IF item.file # None THEN <<"read", "close">> ELSE <<>>

\* The records of identities without perceptual hash, as a database holds
\* them.
ItemRecords ==
    {[names |-> {p}, size |-> c.size, first_512b_sha256 |-> c.first_512,
      sha256 |-> c.sha, ph |-> [a \in Algorithms |-> NoKey]] :
        p \in Paths, c \in Contents}

\* HashItem(filename): the instance is made; log keeps what it does with
\* its file from now on.
Probe(filename) ==
    /\ items = <<>>
    /\ files[filename] # NoFile
    /\ items' = <<HashItem(filename)>>
    /\ log' = ProbeOps
    /\ last' = NoOp
    /\ UNCHANGED <<files, dumped, notIndex>>

\* HashItem.load(d): the instance is made from a record.
LoadItem(d) ==
    /\ items = <<>>
    /\ ~LoadRaises(d)
    /\ items' = <<HashItem_load(d)>>
    /\ log' = <<>>
    /\ last' = NoOp
    /\ UNCHANGED <<files, dumped, notIndex>>

\* Reads of content_sha256 followed on one instance.
MaxReads == 2

\* A read of the property content_sha256; dumped keeps the values returned
\* so far.
ReadContentSha256 ==
    /\ items # <<>>
    /\ Len(dumped) < MaxReads
    /\ items' = <<ContentSha256Item(items[1])>>
    /\ log' = log \o ContentSha256Ops(items[1])
    /\ dumped' = Append(dumped, ContentSha256(items[1]))
    /\ last' = Op("content_sha256", Len(dumped'))
    /\ UNCHANGED <<files, notIndex>>

InitItem ==
    /\ files \in [Paths -> Contents \cup {NoFile}]
    /\ items = <<>>
    /\ last = NoOp
    /\ log = <<>>
    /\ dumped = <<>>
    /\ found = NoRun
    /\ IdleStore

NextItem ==
    \/ \E p \in Paths : Probe(p)
    \/ \E d \in ItemRecords : LoadItem(d)
    \/ ReadContentSha256
    \/ \E p \in Paths :
          RemoveFile(p) /\ UNCHANGED <<log, dumped, notIndex>>
    \/ \E p \in Paths, c \in Contents :
          WriteFile(p, c) /\ UNCHANGED <<log, dumped, notIndex>>

SpecItem == InitItem /\ [][NextItem]_vars

----------------------------------------------------------------------------
(* main: the commands after load_database (imagedups/imagedups.py)         *)

\* The image of the directory given as path, and the directory.
ImageFile == 1

ImageDir == dirname(NameOf(ImageFile))

\* An identity as a database holds it.
SavedItem(names, c, hash) ==
    [file_names       |-> names,
     file_size        |-> c.size,
     first_512_sha256 |-> c.first_512,
     content_sha256   |-> c.sha,
     file             |-> None,
     image_hash       |-> [a \in Algorithms |-> hash]]

\* The database files that main starts with: none, a corrupt one, or a
\* saved index of at most two identities.
MainDbPaths ==
    {NoDbPath, [kind |-> "bad_json", records |-> <<>>]}
        \cup {save_database(its) :
                its \in {<<>>,
                         <<SavedItem({ImageFile}, ContentA, NoHash)>>,
                         <<SavedItem({ImageFile + 1}, ContentA, NoHash)>>,
                         <<SavedItem({ImageFile}, ContentA, ContentA.ph)>>,
                         <<SavedItem({ImageFile + 1}, ContentA, NoHash),
                           SavedItem({}, ContentB, NoHash)>>}}

\* cmd_search without a sample file, up to the search itself, which only
\* prints: filter_by_path when a path was given.
cmd_search(its, path) ==
    IF path = None THEN its ELSE filter_by_path(its, path)

\* One `if` of main and the command under it.  When the command is not
\* selected nothing runs; otherwise log gets the name of the command, the
\* index is what the command leaves, the database is saved if the command
\* saves, and an exception ends main.
MainCommand(selected, cmd, its, saved, exc, next) ==
    /\ IF selected
       THEN /\ log' = Append(log, cmd)
            /\ items' = IF saved THEN Dumped(its) ELSE its
            /\ dbpath' = IF saved THEN save_database(its) ELSE dbpath
            /\ run' = [run EXCEPT !.pc = IF exc = None THEN next ELSE "fatal",
                                  !.exc = exc]
       ELSE /\ run' = [run EXCEPT !.pc = next]
            /\ UNCHANGED <<log, items, dbpath>>
    /\ UNCHANGED <<files, last, dumped, found,
                   dbfile, old_hashdb, new_hashdb, upd, batch>>

\* cmd_hash as main calls it: it returns at once when no path was given.
MainHash(selected, next) ==
    LET r == cmd_hash(items, ImageFile, "dct")
    IN  IF run.args.path = None
        THEN MainCommand(selected, "hash", items, FALSE, None, next)
        ELSE MainCommand(selected, "hash", r.items, TRUE, r.exc, next)

\* if args.hash: self.cmd_hash()
MainIfHash ==
    /\ run.pc = "commands"
    /\ MainHash(run.args.hash, "if_cleanup")

\* if args.cleanup: self.cmd_cleanup()
MainIfCleanup ==
    /\ run.pc = "if_cleanup"
    /\ MainCommand(run.args.cleanup, "cleanup", cmd_cleanup(items), TRUE, None,
                   "if_prune")

\* if args.prune: self.cmd_prune()
MainIfPrune ==
    /\ run.pc = "if_prune"
    /\ MainCommand(run.args.prune, "prune", HashDB_prune(items), TRUE, None,
                   "if_search")

\* if args.search: self.cmd_search()
MainIfSearch ==
    /\ run.pc = "if_search"
    /\ MainCommand(run.args.search, "search", cmd_search(items, run.args.path),
                   FALSE, None, "if_not_specified")

\* if not cmd_specified: cmd_hash, cmd_cleanup and cmd_search, one step
\* each.
MainDefaultHash ==
    /\ run.pc = "if_not_specified"
    /\ MainHash(~CmdSpecified(run.args),
                IF CmdSpecified(run.args) THEN "done" ELSE "default_cleanup")

MainDefaultCleanup ==
    /\ run.pc = "default_cleanup"
    /\ MainCommand(TRUE, "cleanup", cmd_cleanup(items), TRUE, None,
                   "default_search")

MainDefaultSearch ==
    /\ run.pc = "default_search"
    /\ MainCommand(TRUE, "search", cmd_search(items, run.args.path), FALSE, None,
                   "done")

InitPhases ==
    /\ files \in {f \in [Paths -> {ContentA, ContentC, NoFile}] :
                    \A p \in Paths \ {ImageFile} : f[p] = NoFile}
    /\ items = <<>>
    /\ last = NoOp
    /\ log = <<>>
    /\ dumped = <<>>
    /\ found = NoRun
    /\ dbfile = NoDbFile
    /\ old_hashdb = NoStore
    /\ new_hashdb = NoStore
    /\ upd = NoUpdate
    /\ dbpath \in MainDbPaths
    /\ run \in [pc : {"main"},
                args : [hash : BOOLEAN, cleanup : BOOLEAN, prune : BOOLEAN,
                        search : BOOLEAN, path : {None, ImageDir}],
                must_exist : {FALSE}, exc : {None}]
    /\ batch = NoBatch

NextPhases ==
    \/ MainLoad
    \/ MainIfHash
    \/ MainIfCleanup
    \/ MainIfPrune
    \/ MainIfSearch
    \/ MainDefaultHash
    \/ MainDefaultCleanup
    \/ MainDefaultSearch

SpecPhases == InitPhases /\ [][NextPhases]_vars

----------------------------------------------------------------------------
(* The index of directory names (imagedups/dbindex.py).  The DBIndex object *)
(* is kept in new_hashdb and its file in dbfile.                            *)

\* Directory paths given to the index.
IndexPaths == {"/a", "/b"}

\* _seqnext never goes beyond MaxSeq, and _items holds MaxEntries at most.
MaxSeq == 3

MaxEntries == 4

\* str(n) for n >= 0, a sequence of decimal digits.
RECURSIVE DecDigits(_)
DecDigits(n) ==
    IF n < 10 THEN <<n>> ELSE Append(DecDigits(n \div 10), n % 10)

\* int(s) of a sequence of decimal digits.
RECURSIVE IntOfDec(_)
IntOfDec(s) ==
    IF s = <<>> THEN 0
    ELSE 10 * IntOfDec(SubSeq(s, 1, Len(s) - 1)) + s[Len(s)]

\* DBIndex.__init__, before the file is loaded.
DBIndex_init ==
    [seqnext |-> 1, items |-> <<>>, map |-> [path \in IndexPaths |-> None]]

\* DBIndex._add(name, path)
DBIndex_add_(idx, name, path) ==
    [idx EXCEPT !.items = Append(@, [name |-> name, path |-> path]),
                !.map[path] = name]

\* DBIndex.add(path): the index afterwards; the name returned is
\* str(idx.seqnext).
DBIndex_add(idx, path) ==
    DBIndex_add_([idx EXCEPT !.seqnext = @ + 1], DecDigits(idx.seqnext), path)

\* DBIndex.save: the control line '#seqnext N' and a line 'name path' for
\* every entry.
DBIndex_save(idx) ==
    [timestamp |-> 0,
     lines     |-> <<[control |-> "#seqnext", text |-> DecDigits(idx.seqnext)]>>
                      \o [i \in 1..Len(idx.items) |->
                            [control |-> None, name |-> idx.items[i].name,
                             path |-> idx.items[i].path]]]

\* The loop of DBIndex.load from line i on: a control line sets _seqnext,
\* any other line is added as it is.
RECURSIVE DBIndex_load(_, _, _)
DBIndex_load(idx, lines, i) ==
    IF i > Len(lines) THEN idx
    ELSE IF lines[i].control = "#seqnext"
         THEN DBIndex_load([idx EXCEPT !.seqnext = IntOfDec(lines[i].text)],
                           lines, i + 1)
         ELSE DBIndex_load(DBIndex_add_(idx, lines[i].name, lines[i].path),
                           lines, i + 1)

\* get_name_by_path(path); ret is the name returned, and log keeps the
\* paths asked for with the names returned.
GetNameByPath(path) ==
    /\ new_hashdb.map[path] # None \/
          (new_hashdb.seqnext < MaxSeq /\ Len(new_hashdb.items) < MaxEntries)
    /\ LET known == new_hashdb.map[path] # None
           name  == IF known THEN new_hashdb.map[path]
                    ELSE DecDigits(new_hashdb.seqnext)
           pair  == [path |-> path, name |-> name]
       IN  /\ new_hashdb' = IF known THEN new_hashdb
                            ELSE DBIndex_add(new_hashdb, path)
           /\ last' = Op("get_name_by_path", name)
           /\ log' = IF \E k \in 1..Len(log) : log[k] = pair THEN log
                     ELSE Append(log, pair)
    /\ UNCHANGED <<files, items, dumped, found,
                   dbfile, old_hashdb, upd, dbpath, run, batch>>

\* add(path); ret is the name returned.
IndexAdd(path) ==
    /\ new_hashdb.seqnext < MaxSeq
    /\ Len(new_hashdb.items) < MaxEntries
    /\ new_hashdb' = DBIndex_add(new_hashdb, path)
    /\ last' = Op("add", DecDigits(new_hashdb.seqnext))
    /\ UNCHANGED <<files, items, log, dumped, found,
                   dbfile, old_hashdb, upd, dbpath, run, batch>>

\* save(): the file is written anew.
IndexSave ==
    /\ dbfile' = DBIndex_save(new_hashdb)
    /\ last' = Op("save", Len(new_hashdb.items))
    /\ UNCHANGED <<files, items, log, dumped, found,
                   old_hashdb, new_hashdb, upd, dbpath, run, batch>>

\* load(filename) on the index as it is.  open() raises IOError when there
\* is no file, and nothing is read.
IndexLoad ==
    /\ Len(new_hashdb.items) + Len(dbfile.lines) <= MaxEntries + 1
    /\ new_hashdb' = IF dbfile = NoDbFile THEN new_hashdb
                     ELSE DBIndex_load(new_hashdb, dbfile.lines, 1)
    /\ last' = Op("load", IF dbfile = NoDbFile THEN 0 ELSE 1)
    /\ UNCHANGED <<files, items, log, dumped, found,
                   dbfile, old_hashdb, upd, dbpath, run, batch>>

\* DBIndex(filename): a new index takes the place of the old one and loads
\* the file; the IOError of a missing file is swallowed.  The names
\* returned for paths that the file does not hold are forgotten with the
\* old index.
IndexNew ==
    /\ new_hashdb' = IF dbfile = NoDbFile THEN DBIndex_init
                     ELSE DBIndex_load(DBIndex_init, dbfile.lines, 1)
    /\ last' = Op("DBIndex", IF dbfile = NoDbFile THEN 0 ELSE 1)
    /\ log' = SelectSeq(log, LAMBDA pair :
                  \E i \in 1..Len(dbfile.lines) :
                      /\ dbfile.lines[i].control = None
                      /\ dbfile.lines[i].path = pair.path)
    /\ UNCHANGED <<files, items, dumped, found,
                   dbfile, old_hashdb, upd, dbpath, run, batch>>

InitIndex ==
    /\ IdleIndex
    /\ dbfile = NoDbFile
    /\ old_hashdb = NoStore
    /\ new_hashdb = DBIndex_init
    /\ upd = NoUpdate
    /\ dbpath = NoDbPath
    /\ run = NoMain
    /\ batch = NoBatch

NextIndex ==
    \/ \E path \in IndexPaths : GetNameByPath(path)
    \/ \E path \in IndexPaths : IndexAdd(path)
    \/ IndexSave
    \/ IndexLoad
    \/ IndexNew

SpecIndex == InitIndex /\ [][NextIndex]_vars

----------------------------------------------------------------------------
(* Searching an index that was built while files were rewritten *)

\* A fourth content, for an index of four identities.
ContentD == [size |-> 3000, first_512 |-> "R", sha |-> "H4", ph |-> 2]

\* What the files hold at first, and what a file is rewritten with: the
\* size and the first 512 bytes of ContentA, and other bytes after them.
FirstContents == {ContentA, ContentC, ContentD}

Rewritten == ContentB

InitSearch ==
    /\ files \in [Paths -> FirstContents]
    /\ items = <<>>
    /\ last = NoOp
    /\ log = <<>>
    /\ dumped = <<>>
    /\ found = NoRun
    /\ IdleStore

\* The commands run until the index is searched, once.
NextSearch ==
    \/ /\ found = NoRun
       /\ \E p \in Paths, a \in Algorithms : CmdHash(p, a)
    \/ /\ found = NoRun
       /\ CmdCleanup
    \/ /\ found = NoRun
       /\ \E p \in Paths :
             WriteFile(p, Rewritten) /\ log' = <<>> /\ UNCHANGED <<dumped, notIndex>>
    \/ \E t \in 0..MaxThreshold, a \in Algorithms : FindGroups(t, a)

SpecSearch == InitSearch /\ [][NextSearch]_vars

----------------------------------------------------------------------------
(* Claims *)

\* The content an item stands for: size, prefix hash and content hash.
SameContent(x, y) ==
    /\ x.file_size = y.file_size
    /\ x.first_512_sha256 = y.first_512_sha256
    /\ ContentSha256(x) = ContentSha256(y)

HasNames(item) == item.file_names # {}

\* The last two add() calls name files of identical bytes, in the same mode.
TwinAdds ==
    /\ Len(log) >= 2
    /\ files[log[Len(log) - 1].path] # NoFile
    /\ files[log[Len(log) - 1].path] = files[log[Len(log)].path]
    /\ log[Len(log) - 1].fast = log[Len(log)].fast

\* C1: add(f1) then add(f2), for files of identical bytes and in either
\* mode, return the same identity, which holds f1 and f2 as aliases; when
\* the first add created the identity (the index had no match for the
\* content), its alias set is exactly {f1, f2} and it is the only identity
\* of the index that matches the content.
C1_TwinAddsSameIdentity ==
    TwinAdds =>
        LET a == log[Len(log) - 1]
            b == log[Len(log)]
        IN  /\ a.ret = b.ret
            /\ ~b.created
            /\ {a.path, b.path} \subseteq items[b.ret].file_names
            /\ a.created =>
                 /\ items[b.ret].file_names = {a.path, b.path}
                 /\ {i \in 1..Len(items) :
                        IF b.fast
                        THEN /\ items[i].file_size = files[b.path].size
                             /\ items[i].first_512_sha256 = files[b.path].first_512
                        ELSE SameContent(items[i], HashItem(b.path))} = {b.ret}

\* Two files of identical bytes were added in fast mode to an index that
\* already held another identity, and made one new identity.
C1_Witness ==
    /\ TwinAdds
    /\ Len(log) = 3
    /\ log[2].created
    /\ log[2].fast
    /\ log[2].path # log[3].path
    /\ Len(items) = 2

\* C2: no two distinct identities of the index have the same content.
C2_NoTwoBinaryEqual ==
    \A i, j \in 1..Len(items) : i # j => ~SameContent(items[i], items[j])

\* The index holds two identities that differ only after the first 512
\* bytes, and an identity with two aliases.
C2_Witness ==
    /\ \E i, j \in 1..Len(items) :
          /\ i # j
          /\ items[i].file_size = items[j].file_size
          /\ items[i].first_512_sha256 = items[j].first_512_sha256
    /\ \E i \in 1..Len(items) : Cardinality(items[i].file_names) >= 2

\* The identities a comparison can meet: those of the index, and the probe
\* of every file that can be opened.
Known ==
    {items[i] : i \in 1..Len(items)}
        \cup {HashItem(p) : p \in {q \in Paths : files[q] # NoFile}}

\* C3: binary_equal is reflexive and symmetric (the second call sees the
\* items as the first call left them) in both modes, and what is equal in
\* full mode is equal in fast mode.
C3_BinaryEqualRelation ==
    \A x, y \in Known :
        /\ \A fast \in BOOLEAN :
              /\ binary_equal(x, x, fast)
              /\ binary_equal(x, y, fast)
                   = binary_equal(AfterCompare(y, x, fast),
                                  AfterCompare(x, y, fast), fast)
        /\ binary_equal(x, y, FALSE)
              => binary_equal(AfterCompare(x, y, FALSE),
                              AfterCompare(y, x, FALSE), TRUE)

\* Among the identities are one whose content hash is not computed yet and
\* one whose hash is stored, equal in fast mode and different in full
\* mode, and a third equal to the first in full mode.
C3_Witness ==
    \E x, y, z \in Known :
        /\ x.file # None
        /\ y.file = None
        /\ binary_equal(x, y, TRUE)
        /\ ~binary_equal(x, y, FALSE)
        /\ z # x
        /\ binary_equal(x, z, FALSE)

\* C4: prune() leaves exactly the identities that have an alias, in their
\* order and unchanged, and removes the others.
C4_PruneExact ==
    [][last'.op = "prune" =>
          /\ items' = SelectSeq(items, HasNames)
          /\ last'.ret = Len(items) - Len(items')]_vars

\* prune() removed an identity and kept two.
C4_Witness ==
    /\ last.op = "prune"
    /\ last.ret >= 1
    /\ Len(items) >= 2
    /\ \E i \in 1..Len(items) : items[i].image_hash["dct"] # NoHash

\* The names of a yielded group: its fname_a and the names of its list.
GroupNames(g) == {g.fname_a} \cup {g.group[m][1] : m \in 1..Len(g.group)}

\* C5: no group yielded by find_groups lists a name b under fname_a when
\* fname_a and b are both names of a group yielded earlier in the run.
C5_NoDerivedPair ==
    found # NoRun =>
        \A k \in 1..Len(found.run.out) :
            \A m \in 1..Len(found.run.out[k].group) :
                \A j \in 1..(k - 1) :
                    ~({found.run.out[k].fname_a, found.run.out[k].group[m][1]}
                          \subseteq GroupNames(found.run.out[j]))

\* The pairs find_groups skipped, as a set.
Skipped == {found.run.skipped[k] : k \in 1..Len(found.run.skipped)}

\* C6: every pair that find_pairs yields and find_groups does not skip is
\* in the output of find_groups: some yielded group has the pair's fname_a
\* and lists its fname_b with its distance.
C6_EveryPairReported ==
    found # NoRun =>
        \A k \in 1..Len(found.pairs) :
            found.pairs[k] \notin Skipped =>
                \E g \in 1..Len(found.run.out) :
                    /\ found.run.out[g].fname_a = found.pairs[k][1]
                    /\ \E m \in 1..Len(found.run.out[g].group) :
                          found.run.out[g].group[m]
                              = <<found.pairs[k][2], found.pairs[k][3]>>

\* A dumped record d holds what item holds: names, size, both hashes, and
\* for every algorithm the text of its perceptual hash.
RecordOf(d, item) ==
    /\ d.names = item.file_names
    /\ d.size = item.file_size
    /\ d.first_512b_sha256 = item.first_512_sha256
    /\ d.sha256 = ContentSha256(item)
    /\ \A a \in Algorithms :
          d.ph[a] = IF item.image_hash[a] = NoHash THEN NoKey
                    ELSE DctStr(item.image_hash[a])

\* C7: dump() records every identity of the index, in order, and
\* load(dump(index)) succeeds and yields identities with the same alias
\* sets, sizes, prefix and full hashes and perceptual hashes, in the same
\* order, so that dumping them again gives the same records.
C7_RoundTrip ==
    /\ last.op = "dump" =>
          /\ Len(dumped) = Len(items)
          /\ \A i \in 1..Len(items) : RecordOf(dumped[i], items[i])
    /\ last.op = "load" =>
          /\ last.ret = 1
          /\ Len(items) = Len(dumped)
          /\ \A i \in 1..Len(items) : RecordOf(dumped[i], items[i])
          /\ HashDB_dump(items) = dumped

\* The last turn of the loop of update_db.
Stepped == upd.step # NoStep

\* st_mtime is later than the timestamp T0, as a time with its fraction.
MtimeNewer(s, T0) == s.mtime.sec > T0 \/ (s.mtime.sec = T0 /\ s.mtime.frac)

\* The later of st_ctime and st_mtime in whole seconds.
ChangedSecond(s) == IF s.ctime.sec > s.mtime.sec THEN s.ctime.sec ELSE s.mtime.sec

\* C8 as stated: for a file with a cached hash, compute is called zero
\* times when its last-modified time is <= T0 and once when it is > T0; a
\* file without a cached hash is computed once; the new store records the
\* cached hash in the first case and the computed one otherwise.
C8_MtimeDecides ==
    Stepped =>
        LET s      == upd.step
            T0     == old_hashdb.timestamp
            cached == HashStore_get(old_hashdb, s.fname)
        IN  /\ (cached # NoHash /\ ~MtimeNewer(s, T0)) =>
                   /\ s.computes = 0
                   /\ HashStore_get(new_hashdb, s.fname) = cached
            /\ (cached # NoHash /\ MtimeNewer(s, T0)) => s.computes = 1
            /\ cached = NoHash => s.computes = 1
            /\ (s.computes = 1 /\ ~s.raised) =>
                   HashStore_get(new_hashdb, s.fname) = dct_imagehash(s.fname)

\* C8, amended: for a file with a cached hash, compute is called zero times
\* when the later of its status-change time and its last-modified time, in
\* whole seconds, is <= T0 and once when it is > T0; a file without a
\* cached hash is computed once; the new store records the cached hash in
\* the first case, the computed one when compute succeeded, and nothing for
\* the file when compute raised IOError.
C8_ChangeTimeDecides ==
    Stepped =>
        LET s      == upd.step
            T0     == old_hashdb.timestamp
            cached == HashStore_get(old_hashdb, s.fname)
            stored == HashStore_get(new_hashdb, s.fname)
        IN  /\ (cached # NoHash /\ ChangedSecond(s) <= T0) =>
                   (s.computes = 0 /\ stored = cached)
            /\ (cached # NoHash /\ ChangedSecond(s) > T0) => s.computes = 1
            /\ cached = NoHash => s.computes = 1
            /\ s.computes \in {0, 1}
            /\ (s.computes = 1 /\ ~s.raised) => stored = dct_imagehash(s.fname)
            /\ (s.computes = 1 /\ s.raised) => stored = NoHash

\* A cached file whose content is as old as the store but whose status
\* changed after it: its hash is computed again and recorded.
C8_Witness ==
    /\ Stepped
    /\ HashStore_get(old_hashdb, upd.step.fname) # NoHash
    /\ ~MtimeNewer(upd.step, old_hashdb.timestamp)
    /\ upd.step.ctime.sec > old_hashdb.timestamp
    /\ upd.step.computes = 1
    /\ HashStore_get(new_hashdb, upd.step.fname) = dct_imagehash(upd.step.fname)

\* The lines of a store file say what the store holds, in its order.
ExactLines(file, db) ==
    /\ file.timestamp = db.timestamp
    /\ Len(file.lines) = Len(db.hashes)
    /\ \A i \in 1..Len(db.hashes) :
          /\ file.lines[i][2] = db.hashes[i][1]
          /\ DctLoad(file.lines[i][1]) = db.hashes[i][2]

\* The records of a database file say what the index holds, in its order.
ExactRecords(db, its) ==
    /\ db.kind = "records"
    /\ Len(db.records) = Len(its)
    /\ \A i \in 1..Len(its) :
          /\ db.records[i].names = its[i].file_names
          /\ db.records[i].size = its[i].file_size
          /\ db.records[i].sha256 = its[i].content_sha256
          /\ \A a \in Algorithms :
                db.records[i].ph[a] =
                    IF its[i].image_hash[a] = NoHash THEN NoKey
                    ELSE DctStr(its[i].image_hash[a])

\* C9 as stated: after a save of zero identities there is no database file,
\* whether one was there before or not; after a save of some there is a
\* file with exactly the current records.
C9_EmptyIsNoFile ==
    /\ last.op = "save" =>
          IF new_hashdb.hashes = <<>> THEN dbfile = NoDbFile
          ELSE dbfile # NoDbFile /\ ExactLines(dbfile, new_hashdb)
    /\ last.op = "save_database" =>
          IF items = <<>> THEN dbpath.kind = "missing"
          ELSE ExactRecords(dbpath, items)

\* C9, amended: HashDB.save of the hash store leaves no file for an empty
\* store, whether one was there before or not, and a file with exactly the
\* current entries otherwise; save_database of the index always leaves a
\* file with exactly the current records, an empty array for an empty index.
C9_StoreEmptyIsNoFile ==
    /\ last.op = "save" =>
          IF new_hashdb.hashes = <<>> THEN dbfile = NoDbFile
          ELSE dbfile # NoDbFile /\ ExactLines(dbfile, new_hashdb)
    /\ last.op = "save_database" => ExactRecords(dbpath, items)

\* An empty store is saved over an existing file, and the file is gone.
C9_Witness ==
    /\ last = Op("save", 1)
    /\ new_hashdb.hashes = <<>>
    /\ dbfile = NoDbFile

\* C10: when the database file is missing or corrupt, main has passed
\* must_exist = TRUE exactly when a command was given and --hash was not;
\* with must_exist = FALSE the program goes on with an empty index, with
\* must_exist = TRUE the failure is fatal.
C10_MissingOrCorrupt ==
    (run.pc \in {"commands", "fatal"} /\ dbpath.kind # "records") =>
        /\ run.must_exist = (CmdSpecified(run.args) /\ ~run.args.hash)
        /\ ~run.must_exist => (run.pc = "commands" /\ items = <<>>)
        /\ run.must_exist => run.pc = "fatal"

\* The files of the batch that can be opened.
Readable == {batch.filenames[n] : n \in {m \in 1..Len(batch.filenames) :
                                            files[batch.filenames[m]] # NoFile}}

\* cmd_hash is over: it returned, or its exception went on to the caller.
HashOver == batch.pc \in {"done", "raised"}

\* C11: a file of the batch that cannot be opened is skipped and the run
\* goes on: the first loop takes every file of the batch unless it is
\* interrupted, so an IOError ends the run only after it, from a task; and
\* when the run ends after the first loop, every file of the batch that
\* can be opened is an alias of an identity and a file that cannot be
\* opened is an alias of none.
C11_UnreadableSkipped ==
    /\ batch.exc = "IOError" => batch.i > Len(batch.filenames)
    /\ (HashOver /\ batch.i > Len(batch.filenames)) =>
          /\ \A f \in Readable :
                \E i \in 1..Len(items) : f \in items[i].file_names
          /\ \A n \in 1..Len(batch.filenames) :
                files[batch.filenames[n]] = NoFile =>
                    \A i \in 1..Len(items) : batch.filenames[n] \notin items[i].file_names

\* The first loop of update_db run by itself from file n on: the index and
\* the list of <<item, path>> submitted.
RECURSIVE SeqAdds(_, _, _, _)
SeqAdds(its, tasks, filenames, n) ==
    IF n > Len(filenames) THEN [items |-> its, tasks |-> tasks]
    ELSE LET r == HashDB_add(its, filenames[n], FALSE)
         IN  SeqAdds(r.items,
                     IF \A a \in Algorithms : r.items[r.ret].image_hash[a] = NoHash
                     THEN Append(tasks, <<r.ret, filenames[n]>>)
                     ELSE tasks,
                     filenames, n + 1)

\* The second loop run by itself from task k on, every task giving the
\* hash of its file.
RECURSIVE SeqMerges(_, _, _)
SeqMerges(its, tasks, k) ==
    IF k > Len(tasks) THEN its
    ELSE SeqMerges([its EXCEPT ![tasks[k][1]].image_hash =
                        [a \in Algorithms |-> compute_hash(tasks[k][2])]],
                   tasks, k + 1)

\* The index that update_db was called with: the file of the directory
\* above is not in the batch, so it is in the index only if it was there
\* from the start.
StartIndex ==
    IF \E i \in 1..Len(items) : NPaths \in items[i].file_names /\ NNames < NPaths
    THEN CHOOSE x \in HashIndexes : x # <<>>
    ELSE <<>>

\* The index that update_db leaves when it is run without any
\* concurrency: all adds, then all merges.
SequentialIndex ==
    LET added == SeqAdds(StartIndex, <<>>, batch.filenames, 1)
    IN  SeqMerges(added.items, added.tasks, 1)

\* Both loops of update_db are through.
UpdateComplete == batch.pc = "merge" /\ batch.j > Len(batch.hashes)

\* C12: when update_db completes, the index (the list of identities, their
\* alias sets and their hashes) is the one that the batch gives when run
\* sequentially, whatever the order in which the tasks started and
\* completed; cmd_hash then adds nothing but the content hashes that the
\* save computes.
C12_ScheduleIndependent ==
    /\ UpdateComplete => items = SequentialIndex
    /\ batch.pc = "done" =>
          items = [i \in 1..Len(SequentialIndex) |-> ContentSha256Item(SequentialIndex[i])]

\* update_db has completed a batch of two tasks for two identities, and the
\* task submitted second ran for a shorter time than the first.
C12_Witness ==
    /\ UpdateComplete
    /\ Len(batch.hashes) = 2
    /\ batch.hashes[1].item # batch.hashes[2].item
    /\ batch.hashes[2].ran < batch.hashes[1].ran

\* A task that is submitted and has not completed.
InFlight(task) == task.state \in {"queued", "running"}

\* C13 as stated: while a task is in flight, the list of identities and the
\* identities are not modified.
C13_NoMutationInFlight ==
    [][(\E k \in 1..Len(batch.hashes) : InFlight(batch.hashes[k]))
           => items' = items]_vars

\* C13, amended: the index and the identities are modified by the main
\* thread only, in a turn of the first loop (add), in a turn of the second
\* loop (merge) or in the save; the hashes of an identity change only in a
\* merge, which writes the result of task j into the identity that task j
\* was submitted for, after task j has completed, and changes nothing else;
\* tasks submitted later can be in flight meanwhile.
C13_MainThreadMutates ==
    [][/\ items' # items =>
             \/ batch'.i = batch.i + 1
             \/ batch'.j = batch.j + 1
             \/ batch'.saves = batch.saves + 1
       /\ batch'.j = batch.j + 1 =>
             /\ batch.hashes[batch.j].state = "done"
             /\ Len(items') = Len(items)
             /\ \A i \in 1..Len(items) :
                   /\ items'[i].file_names = items[i].file_names
                   /\ i # batch.hashes[batch.j].item => items'[i] = items[i]
       /\ \A i \in 1..Len(items) :
             (i <= Len(items') /\ items'[i].image_hash # items[i].image_hash) =>
                 /\ batch'.j = batch.j + 1
                 /\ i = batch.hashes[batch.j].item]_vars

\* The hash of the first task is merged while the second task is running.
C13_Witness ==
    /\ batch.pc = "merge"
    /\ batch.j = 2
    /\ Len(batch.hashes) = 2
    /\ batch.hashes[2].state = "running"
    /\ \E a \in Algorithms : items[batch.hashes[1].item].image_hash[a] # NoHash

\* The time a task has run is more than the timeout.
RanLong(task) == task.ran * TickLength > Timeout

\* C14: the timeout is per task: the hash of a task that has run for more
\* than 60 time units is never written into its identity (update_db fails
\* with TimeoutError instead), and update_db fails with TimeoutError only
\* if some task has run for more than 60 time units.
C14_RunTimeDecides ==
    InBody =>
        /\ \A k \in 1..(batch.j - 1) : ~RanLong(batch.hashes[k])
        /\ (batch.pc = "merge" /\ batch.j <= Len(batch.hashes) /\ TimedOut)
              => RanLong(batch.hashes[batch.j])

\* The tasks merged when the run was aborted, and those not.
MergedTasks == 1..(batch.j - 1)

C16_FailedSaveKeepsFile ==
    [][/\ (last.op = "save" /\ last'.op = "save_failed") => dbfile' = dbfile
       /\ (last.op = "save_database" /\ last'.op = "save_database_failed") =>
             /\ dbpath' = dbpath
             /\ ReadError(dbpath') = None]_vars

\* A file name or directory lies under directory dir.
Under(name, dir) == StartsWith(name, RStrip(dir) \o <<"/">>)

\* The aliases of an item that lie under dir.
AliasesUnder(item, dir) == {n \in item.file_names : Under(NameOf(n), dir)}

\* C17: filter_by_path(prefix) leaves exactly the identities that had an
\* alias under directory prefix, in their order, each with exactly its
\* aliases under prefix and otherwise unchanged.
C17_FilterExact ==
    [][last'.op = "filter_by_path" =>
          LET dir  == log'[1]
              keep == {i \in 1..Len(items) : AliasesUnder(items[i], dir) # {}}
          IN  /\ Len(items') = Cardinality(keep)
              /\ \E f \in [1..Len(items') -> keep] :
                    /\ \A k, m \in 1..Len(items') : k < m => f[k] < f[m]
                    /\ \A k \in 1..Len(items') :
                          items'[k] = [items[f[k]] EXCEPT
                                          !.file_names = AliasesUnder(items[f[k]], dir)]]_vars

\* Directory d is directory e or lies under it.
DirWithin(d, e) == d = e \/ Under(d, e)

\* The aliases of the index.
Aliases == UNION {items[i].file_names : i \in 1..Len(items)}

\* C18: the list that list_top_paths returns is sorted, is the same for
\* every order in which the aliases are visited, covers the directory of
\* every alias, holds no directory that is another one of the list or
\* lies under it, and holds only directories of aliases.
C18_MinimalCover ==
    last.op = "list_top_paths" =>
        /\ \A k \in 1..(Len(dumped) - 1) : StrLess(dumped[k], dumped[k + 1])
        /\ \A visit \in Visits(items, 1) : list_top_paths(visit) = dumped
        /\ \A n \in Aliases :
              \E k \in 1..Len(dumped) : DirWithin(dirname(NameOf(n)), dumped[k])
        /\ \A k, m \in 1..Len(dumped) : k # m => ~DirWithin(dumped[k], dumped[m])
        /\ \A k \in 1..Len(dumped) :
              \E n \in Aliases : dirname(NameOf(n)) = dumped[k]

\* The pairs of positions of identities that find_pairs is to report: both
\* with aliases, both with a hash, at a distance within the threshold.
ClosePairs(its, threshold, hash_name) ==
    {c \in (1..Len(its)) \X (1..Len(its)) :
        /\ c[1] < c[2]
        /\ its[c[1]].file_names # {} /\ its[c[2]].file_names # {}
        /\ its[c[1]].image_hash[hash_name] # NoHash
        /\ its[c[2]].image_hash[hash_name] # NoHash
        /\ DctDistance(its[c[1]].image_hash[hash_name],
                       its[c[2]].image_hash[hash_name]) <= threshold}

\* The smallest alias of a set.
MinAlias(names) == CHOOSE f \in names : \A g \in names : ~(g < f)

\* The triple to report for a pair of positions.
TripleOf(its, c, hash_name) ==
    <<MinAlias(its[c[1]].file_names), MinAlias(its[c[2]].file_names),
      DctDistance(its[c[1]].image_hash[hash_name], its[c[2]].image_hash[hash_name])>>

\* C19: find_pairs yields exactly one triple for every pair of identities
\* that both have aliases and a hash and are within the threshold, and no
\* other triple; the triple holds the smallest alias of the earlier
\* identity, the smallest alias of the later one and their distance; the
\* index is left as it is.
C19_PairsExact ==
    [][found' # found =>
          /\ items' = items
          /\ \A a \in Algorithms :
                LET close == ClosePairs(items, found'.threshold, a)
                    pairs == found'.pairs
                IN  /\ Len(pairs) = Cardinality(close)
                    /\ \A c \in close :
                          Cardinality({k \in 1..Len(pairs) :
                                          pairs[k] = TripleOf(items, c, a)}) = 1
                    /\ \A k \in 1..Len(pairs) :
                          \E c \in close : pairs[k] = TripleOf(items, c, a)]_vars

\* A search that reports the pair of the first and the last identity, one
\* of them with two aliases, and leaves out the identity between them,
\* which is without aliases or without a hash.
C19_Witness ==
    /\ found # NoRun
    /\ Len(items) >= 3
    /\ Len(found.pairs) = 1
    /\ found.pairs[1][1] \in items[1].file_names
    /\ found.pairs[1][2] \in items[Len(items)].file_names
    /\ Cardinality(items[1].file_names) = 2
    /\ \E a \in Algorithms :
          items[2].file_names = {} \/ items[2].image_hash[a] = NoHash

\* The positions of the identities whose hash is within the threshold of
\* the sample's.
Within(its, imghash, threshold, hash_name) ==
    {i \in 1..Len(its) :
        /\ its[i].image_hash[hash_name] # NoHash
        /\ DctDistance(imghash, its[i].image_hash[hash_name]) <= threshold}

\* C20: query completes without error on every index, also one that
\* holds identities without aliases or without a hash, and yields the
\* smallest alias and the distance of exactly the identities whose hash is
\* within the threshold, in index order.
C20_QueryCompletes ==
    found # NoRun =>
        /\ found.query.exc = None
        /\ \A a \in Algorithms :
              LET within == Within(items, found.imghash, found.threshold, a)
                  out    == found.query.out
              IN  /\ Len(out) = Cardinality(within)
                  /\ \E f \in [1..Len(out) -> within] :
                        /\ \A k, m \in 1..Len(out) : k < m => f[k] < f[m]
                        /\ \A k \in 1..Len(out) :
                              /\ items[f[k]].file_names # {}
                              /\ out[k][1] = MinAlias(items[f[k]].file_names)
                              /\ out[k][2] = DctDistance(found.imghash,
                                                         items[f[k]].image_hash[a])

\* The names of the item whose file can be opened and has the item's size
\* and prefix hash and, in full mode, its content hash.
StillMatching(item, fast) ==
    {f \in item.file_names :
        /\ files[f] # NoFile
        /\ files[f].size = item.file_size
        /\ files[f].first_512 = item.first_512_sha256
        /\ (fast \/ files[f].sha = ContentSha256(item))}

\* Whether the run of check_file_names over the index was in fast mode.
FastMode(op, mode) ==
    \/ op = "cmd_cleanup"
    \/ op = "cleanup" /\ mode = <<TRUE>>

OpCount(op) == Cardinality({k \in 1..Len(log) : log[k] = op})

\* The step is a read of content_sha256.
IsRead == Len(dumped') = Len(dumped) + 1

\* C22: the first read of content_sha256 on a probed item reads the rest of
\* the file, stores the hash and closes the handle; once the hash is stored
\* nothing changes the item or touches a file, whatever happens to the
\* files, and every read returns the stored value; the handle is opened
\* and closed at most once, and an item loaded from a record never opens a
\* file.
C22_ContentHashStable ==
    [][items # <<>> =>
          /\ items[1].content_sha256 # None =>
                /\ items' = items
                /\ log' = log
                /\ IsRead => dumped'[Len(dumped')] = items[1].content_sha256
          /\ (items[1].content_sha256 = None /\ IsRead) =>
                /\ items[1].file # None
                /\ dumped'[Len(dumped')] = items[1].file
                /\ items'[1].content_sha256 = dumped'[Len(dumped')]
                /\ items'[1].file = None
                /\ log' = log \o <<"read", "close">>
          /\ (items[1].content_sha256 = None /\ ~IsRead) =>
                items' = items /\ log' = log
          /\ OpCount("close")' <= 1
          /\ OpCount("open")' <= 1
          /\ (items'[1].file # None) = (log' = ProbeOps)]_vars

\* The property was read twice on a probed item whose file holds other
\* content by now: one open, one close, and twice the hash of what the
\* file held.
C22_Witness ==
    /\ items # <<>>
    /\ Len(dumped) = 2
    /\ dumped[1] = dumped[2]
    /\ log = <<"open", "read", "read", "close">>
    /\ \E p \in items[1].file_names :
          /\ files[p] # NoFile
          /\ files[p].sha # dumped[2]

\* The commands of the list that the arguments select.
RECURSIVE SelectedOf(_, _)
SelectedOf(args, cmds) ==
    IF cmds = <<>> THEN <<>>
    ELSE (IF args[Head(cmds)] THEN <<Head(cmds)>> ELSE <<>>)
            \o SelectedOf(args, Tail(cmds))

\* The commands that a run with these arguments is to run, in order.
Expected(args) ==
    IF args.hash \/ args.cleanup \/ args.prune \/ args.search
    THEN SelectedOf(args, <<"hash", "cleanup", "prune", "search">>)
    ELSE <<"hash", "cleanup", "search">>

IsPrefix(s, t) == Len(s) <= Len(t) /\ s = SubSeq(t, 1, Len(s))

\* C23: the commands run in the order hash, cleanup, prune, search, each
\* selected one once and no other, and hash, cleanup, search when none is
\* selected; no command runs before load_database has returned, and none
\* after an exception has ended main.
C23_PhaseOrder ==
    /\ IsPrefix(log, Expected(run.args))
    /\ run.pc = "main" => log = <<>>
    /\ run.pc = "done" => log = Expected(run.args)
    /\ (run.pc = "fatal" /\ log # <<>>) => log[Len(log)] = "hash"

\* main has returned from a run with --hash --prune --search on a
\* directory: the three commands ran in this order, cleanup did not, and
\* the index holds the image.
C23_Witness ==
    /\ run.pc = "done"
    /\ run.args.hash /\ ~run.args.cleanup /\ run.args.prune /\ run.args.search
    /\ log = <<"hash", "prune", "search">>
    /\ \E i \in 1..Len(items) : ImageFile \in items[i].file_names

\* C24: no two entries of the index of directory names share a name and no
\* two share a path, and get_name_by_path has returned one name only for
\* every path, over add, save and load and over a new index made from the
\* file.
C24_IndexBijection ==
    /\ \A i, j \in 1..Len(new_hashdb.items) :
          i # j => /\ new_hashdb.items[i].name # new_hashdb.items[j].name
                   /\ new_hashdb.items[i].path # new_hashdb.items[j].path
    /\ \A k, l \in 1..Len(log) :
          log[k].path = log[l].path => log[k].name = log[l].name

\* The representative of every pair of the last search, in order.
Heads == [k \in 1..Len(found.pairs) |-> found.pairs[k][1]]

\* C25: in the pairs that find_pairs yields every representative heads one
\* run of neighbouring pairs only, and no two groups that find_groups
\* yields have the same representative, for every index built by hashing
\* and cleanup while files are rewritten.
C25_GroupsContiguous ==
    found # NoRun =>
        /\ \A i, j, k \in 1..Len(Heads) :
              (i < j /\ j < k /\ Heads[i] = Heads[k]) => Heads[j] = Heads[i]
        /\ \A g, h \in 1..Len(found.run.out) :
              g # h => found.run.out[g].fname_a # found.run.out[h].fname_a

\* C26: every path is a name of at most one item of the index, after any
\* commands that add files and clean the index up while other programs
\* rewrite the files.
C26_AliasUnique ==
    \A i, j \in 1..Len(items) :
        i # j => items[i].file_names \cap items[j].file_names = {}

\* C27: in one batch of update_db no two tasks are submitted for the same
\* item, and a task is submitted only for an item that has no hash for the
\* algorithm: an item with a task not yet merged has no hash.
C27_OneTaskPerItem ==
    /\ \A k, l \in 1..Len(batch.hashes) :
          k # l => batch.hashes[k].item # batch.hashes[l].item
    /\ \A k \in 1..Len(batch.hashes) :
          (InBody /\ k >= batch.j) =>
              \A a \in Algorithms :
                  items[batch.hashes[k].item].image_hash[a] = NoHash

====
